---- MODULE Spec2Model ----
(***************************************************************************)
(* Verification model of the HASTUR propagation codes:                     *)
(*   - compute_sum            (aiurpy/core/ionization.py)                    *)
(*   - compute_raman          (acherus/mathematics/routines/raman.py)        *)
(*   - FCNSolver              (phd_coding/.../water_2d1_fcn_rk4.py)          *)
(*   - SolverFSS              (acherus/solvers/fss.py)                       *)
(*   - the ADI script loop    (phd_coding/.../ffdmk_2d1_adi2.py)             *)
(*   - compute_ionization    (aiurpy/core/ionization.py)                    *)
(*   - compute_matrix         (acherus/solvers/fss.py)                       *)
(*   - the CN-AB2 script loop (phd_coding/.../ffdmk_2d1_scn_old.py)          *)
(*   - inter_diagnostics, validate_step, cheap_diagnostics                  *)
(*                            (aiurpy/results/routines.py)                   *)
(* Each program has its own state variable (a record of its fields or     *)
(* locals) and its own specification; the other variables stay at rest.   *)
(***************************************************************************)
EXTENDS Integers, Sequences, FiniteSets, TLC

VARIABLES csum, ram, fcn, fss, adi, ion, mat, rout, scn

vars == <<csum, ram, fcn, fss, adi, ion, mat, rout, scn>>

(***************************************************************************)
(* Floating point values.  A value is an integer of magnitude at most     *)
(* MaxAbs, or the single non-finite value NonFinite (inf and nan).  An    *)
(* operation whose exact result leaves the range overflows to NonFinite,  *)
(* and every operation on NonFinite gives NonFinite.  np.argmax, which    *)
(* tells the non-finite values apart, is given every value that           *)
(* NonFinite can stand for.                                                *)
(***************************************************************************)
MaxAbs == 20000

NonFinite == MaxAbs + 1

isfinite(x) == x # NonFinite

Fl(x) == IF x > MaxAbs \/ x < -MaxAbs THEN NonFinite ELSE x

Add(a, b) == IF a = NonFinite \/ b = NonFinite THEN NonFinite ELSE Fl(a + b)

Sub(a, b) == IF a = NonFinite \/ b = NonFinite THEN NonFinite ELSE Fl(a - b)

Mul(a, b) == IF a = NonFinite \/ b = NonFinite THEN NonFinite ELSE Fl(a * b)

Abs(a) == IF a = NonFinite THEN NonFinite ELSE IF a < 0 THEN -a ELSE a

RECURSIVE Pow(_, _)
Pow(a, n) == IF n = 0 THEN 1 ELSE Mul(a, Pow(a, n - 1))

(***************************************************************************)
(* Binary floating point, for the programs whose arithmetic is not        *)
(* integral (compute_sum, compute_ionization, the CN-AB2 script).  A      *)
(* finite value is a pair <<m, e>> standing for m * 2^e, with a mantissa  *)
(* of MantBits bits, 2^19 <= |m| < 2^20, or <<0, 0>> for zero.  Every      *)
(* operation rounds its exact result to the nearest such value, as the    *)
(* double precision operations of the code do with 53 bits, so a          *)
(* difference of two nearly equal values keeps fewer digits here than in  *)
(* the code.  FInf, FNegInf and FNaN are inf, -inf and nan; zero has no    *)
(* sign.  The range is the range of the doubles: a result beyond the      *)
(* largest double is inf, and below 2^-1022 the values are the multiples  *)
(* of 2^-1074.  Where the code's double keeps digits that one float       *)
(* cannot (the argument of np.exp, the logarithm inside np.power), the    *)
(* value is carried as a pair <<h, l>> of floats standing for h + l.  All *)
(* intermediate integers stay below 2^31.                                  *)
(***************************************************************************)
Pow2Table ==
    <<1, 2, 4, 8, 16, 32, 64, 128, 256, 512, 1024, 2048, 4096, 8192, 16384, 32768,
      65536, 131072, 262144, 524288, 1048576, 2097152, 4194304, 8388608, 16777216,
      33554432, 67108864, 134217728, 268435456, 536870912, 1073741824>>

\* 2^n for 0 <= n <= 30
Pow2(n) == Pow2Table[n + 1]

MantBits == 4 * 5

FZero == <<0, 0>>

FInf == <<0, 1>>

FNegInf == <<0, -1>>

FNaN == <<0, 2>>

FOne == <<Pow2(19), -19>>

FTwo == <<Pow2(19), -18>>

FHalf == <<Pow2(19), -20>>

\* ln 2
FLn2 == <<726817, -20>>

\* the largest binary exponent of a finite double, and the exponent of the
\* smallest positive one
FMaxExp == Pow2(10)

FMinExp == -(Pow2(10) + 50)

\* the largest finite value
FMax == <<Pow2(MantBits) - 1, FMaxExp - MantBits>>

FIsNaN(a) == a = FNaN

FIsInf(a) == a = FInf \/ a = FNegInf

FIsFinite(a) == a[1] # 0 \/ a[2] = 0

\* -1, 0 or 1; a is not nan
FSign(a) ==
    IF a[1] > 0 \/ a = FInf THEN 1 ELSE IF a[1] < 0 \/ a = FNegInf THEN -1 ELSE 0

\* for 2^20 <= m < 2^31: the d with 2^(19 + d) <= m < 2^(20 + d), searched from d down
RECURSIVE FOver(_, _)
FOver(m, d) == IF m >= Pow2(19 + d) THEN d ELSE FOver(m, d - 1)

\* m * 2^e with 0 < m < 2^19, shifted left until the mantissa is normalised
RECURSIVE FUp(_, _)
FUp(m, e) == IF m >= Pow2(19) THEN <<m, e>> ELSE FUp(2 * m, e - 1)

\* a value r below 2^-1022, as a double holds it: the nearest multiple of 2^-1074,
\* a tie going to the even one, and zero from 2^-1075 down
FSubnormalKept(q) == IF q = 0 THEN FZero ELSE FUp(q, FMinExp)

FSubnormalRound(q, rest, half) ==
    FSubnormalKept(IF rest > half \/ (rest = half /\ q % 2 = 1) THEN q + 1 ELSE q)

FSubnormalShift(m, s) ==
    IF s > MantBits THEN FZero
    ELSE FSubnormalRound(m \div Pow2(s), m % Pow2(s), Pow2(s - 1))

FSubnormal(r) == FSubnormalShift(r[1], FMinExp - r[2])

\* the float nearest to m * 2^e, for 0 <= m < 2^31, in the range of the doubles: a
\* value of 2^1024 or more is inf, one that only the rounding of the mantissa
\* takes to 2^1024 is the largest finite value
FNormRange(r, carried) ==
    IF r[2] + MantBits > FMaxExp
    THEN (IF carried /\ r[2] + MantBits = FMaxExp + 1 THEN FMax ELSE FInf)
    ELSE IF r[2] < FMinExp THEN FSubnormal(r)
    ELSE r

\* the mantissa q of 2^19 .. 2^20 after the rounding, which may have carried it to 2^20
FNormPack(q, e) ==
    FNormRange(IF q = Pow2(MantBits) THEN <<Pow2(19), e + 1>> ELSE <<q, e>>, q = Pow2(MantBits))

FNormRound(m, e, d) == FNormPack(((m \div Pow2(d - 1)) + 1) \div 2, e + d)

FNorm(m, e) ==
    IF m = 0 THEN FZero
    ELSE IF m >= Pow2(MantBits) THEN FNormRound(m, e, FOver(m, 11))
    ELSE FNormRange(FUp(m, e), FALSE)

FNeg(a) ==
    IF a = FNaN THEN a ELSE IF a[1] = 0 THEN <<0, -a[2]>> ELSE <<-a[1], a[2]>>

FAbs(a) == IF a = FNaN THEN a ELSE IF FSign(a) < 0 THEN FNeg(a) ELSE a

\* FNorm for a signed mantissa
FSigned(m, e) == IF m >= 0 THEN FNorm(m, e) ELSE FNeg(FNorm(-m, e))

\* r, or -r where the result is negative
FNegIf(r, negative) == IF negative THEN FNeg(r) ELSE r

\* inf with the sign s # 0
FInfOf(s) == IF s > 0 THEN FInf ELSE FNegInf

\* the float of the integer n
FInt(n) == FSigned(n, 0)

\* the mantissa m of the smaller operand under ten guard bits, d bits down
FAddShift(m, d) == IF d > MantBits + 1 THEN 0 ELSE (m * Pow2(10)) \div Pow2(d)

\* hi + lo for finite non-zero operands, the exponent of hi not below that of lo
FAddAligned(hi, lo) ==
    FSigned(hi[1] * Pow2(10) + (IF lo[1] < 0 THEN -FAddShift(-lo[1], hi[2] - lo[2])
                                ELSE FAddShift(lo[1], hi[2] - lo[2])), hi[2] - 10)

\* a + b: the smaller operand is aligned with ten guard bits; inf - inf is nan
FAdd(a, b) ==
    IF a = FNaN \/ b = FNaN THEN FNaN
    ELSE IF FIsInf(a) THEN (IF FIsInf(b) /\ a # b THEN FNaN ELSE a)
    ELSE IF FIsInf(b) THEN b
    ELSE IF a[1] = 0 THEN b
    ELSE IF b[1] = 0 THEN a
    ELSE IF a[2] >= b[2] THEN FAddAligned(a, b) ELSE FAddAligned(b, a)

FSub(a, b) == FAdd(a, FNeg(b))

\* the magnitude of the integer n
IntAbs(n) == IF n < 0 THEN -n ELSE n

\* the product of the mantissas ma and mb without its last ten bits, formed in two
\* halves
FMulTop(ma, mb) == ma * (mb \div Pow2(10)) + (ma * (mb % Pow2(10))) \div Pow2(10)

\* a * b; 0 * inf is nan
FMul(a, b) ==
    IF a = FNaN \/ b = FNaN THEN FNaN
    ELSE IF FIsInf(a) \/ FIsInf(b)
         THEN (IF FSign(a) = 0 \/ FSign(b) = 0 THEN FNaN
               ELSE FInfOf(IF FSign(a) = FSign(b) THEN 1 ELSE -1))
    ELSE IF a[1] = 0 \/ b[1] = 0 THEN FZero
    ELSE FSigned(IF (a[1] < 0) = (b[1] < 0) THEN FMulTop(IntAbs(a[1]), IntAbs(b[1]))
                 ELSE -FMulTop(IntAbs(a[1]), IntAbs(b[1])), a[2] + b[2] + 10)

\* ma * mb - q * 2^s for the mantissa q and the exponent s of the rounded product
FMulLeft(ma, mb, q, s) ==
    (FMulTop(ma, mb) - q * Pow2(s - 10)) * Pow2(10) + ((ma * (mb % Pow2(10))) % Pow2(10))

\* a * b - r for the rounded product r of the finite non-zero a and b
FMulRest(a, b, r) ==
    IF r[1] = 0 \/ r[2] <= FMinExp \/ r[2] - (a[2] + b[2]) < 19 \/ r[2] - (a[2] + b[2]) > 21
    THEN FZero
    ELSE FSigned(IF (a[1] < 0) = (b[1] < 0)
                 THEN FMulLeft(IntAbs(a[1]), IntAbs(b[1]), IntAbs(r[1]), r[2] - (a[2] + b[2]))
                 ELSE -FMulLeft(IntAbs(a[1]), IntAbs(b[1]), IntAbs(r[1]), r[2] - (a[2] + b[2])),
                 a[2] + b[2])

\* a * b - FMul(a, b), the part of the product of the mantissas that the rounding
\* of FMul drops; zero where the product is not a normal finite value
FMulErr(a, b) ==
    IF ~FIsFinite(a) \/ ~FIsFinite(b) \/ a[1] = 0 \/ b[1] = 0 THEN FZero
    ELSE FMulRest(a, b, FMul(a, b))

\* a + b - FAdd(a, b), what the rounding of the sum drops
FAddRest(a, b, s, bb) == FAdd(FSub(a, FSub(s, bb)), FSub(b, bb))

FAddLeft(a, b, s) ==
    IF ~FIsFinite(s) \/ ~FIsFinite(a) \/ ~FIsFinite(b) THEN FZero
    ELSE FAddRest(a, b, s, FSub(s, a))

FAddErr(a, b) == FAddLeft(a, b, FAdd(a, b))

\* the pair of value h + l whose first entry is the rounded sum
FPairSplit(h, l, s) == <<s, IF ~FIsFinite(s) \/ s[1] = 0 THEN FZero ELSE FAdd(FSub(h, s), l)>>

FPair(h, l) == FPairSplit(h, l, FAdd(h, l))

\* the sum and the product of two pairs
FPairAdd(a, b) == FPair(FAdd(a[1], b[1]), FAdd(FAddErr(a[1], b[1]), FAdd(a[2], b[2])))

\* a product that is inf or nan is the product of the first entries, as the single
\* product of the code
FPairMulOf(a, b, h) ==
    IF ~FIsFinite(h) THEN <<h, FZero>>
    ELSE FPair(h, FAdd(FMulErr(a[1], b[1]), FAdd(FMul(a[1], b[2]), FMul(a[2], b[1]))))

FPairMul(a, b) == FPairMulOf(a, b, FMul(a[1], b[1]))

\* the first 21 bits of ma / mb by long division: two steps of ten bits, from the
\* dividends n1 and n2, and a rounding bit
FDivDigits(mb, n1, n2) ==
    ((n1 \div mb) * Pow2(10) + (n2 \div mb)) * 2 + (2 * (n2 % mb)) \div mb

FDivSecond(mb, n1) == FDivDigits(mb, n1, (n1 % mb) * Pow2(10))

FDivQuotient(ma, mb) == FDivSecond(mb, ma * Pow2(10))

\* a / b; x / 0 is
\* inf with the sign of x, 0 / 0 and inf / inf are nan, x / inf is 0
FDiv(a, b) ==
    IF a = FNaN \/ b = FNaN THEN FNaN
    ELSE IF FIsInf(a) THEN (IF FIsInf(b) THEN FNaN
                            ELSE FInfOf(IF FSign(b) < 0 THEN -FSign(a) ELSE FSign(a)))
    ELSE IF FIsInf(b) THEN FZero
    ELSE IF b[1] = 0 THEN (IF a[1] = 0 THEN FNaN ELSE FInfOf(FSign(a)))
    ELSE IF a[1] = 0 THEN FZero
    ELSE FSigned(IF (a[1] < 0) = (b[1] < 0) THEN FDivQuotient(IntAbs(a[1]), IntAbs(b[1]))
                 ELSE -FDivQuotient(IntAbs(a[1]), IntAbs(b[1])), a[2] - b[2] - 21)

\* a < b; a comparison with nan is false
FLess(a, b) ==
    IF a = FNaN \/ b = FNaN \/ a = b THEN FALSE
    ELSE IF a = FNegInf \/ b = FInf THEN TRUE
    ELSE IF a = FInf \/ b = FNegInf THEN FALSE
    ELSE IF FSign(a) # FSign(b) THEN FSign(a) < FSign(b)
    ELSE IF a[2] # b[2] THEN (a[2] < b[2]) = (a[1] > 0)
    ELSE a[1] < b[1]

\* a <= b; false when either is nan
FLeq(a, b) == a # FNaN /\ b # FNaN /\ (a = b \/ FLess(a, b))

\* the integer floor(a) and ceil(a), for a finite a of magnitude below 2^30
FFloor(a) ==
    IF a[2] >= 0 THEN a[1] * Pow2(a[2])
    ELSE IF -a[2] > 30 THEN (IF a[1] < 0 THEN -1 ELSE 0)
    ELSE a[1] \div Pow2(-a[2])

FCeil(a) == -FFloor(FNeg(a))

\* whether the finite float p is a whole number
FIsWhole(p) ==
    \/ p[1] = 0
    \/ p[2] >= 0
    \/ -p[2] <= MantBits /\ p[1] % Pow2(-p[2]) = 0

\* floor of the square root of m < 2^30, bit by bit from bit k down
RECURSIVE FRootBits(_, _, _)
FRootBits(m, r, k) ==
    IF k < 0 THEN r
    ELSE FRootBits(m, IF (r + Pow2(k)) * (r + Pow2(k)) <= m THEN r + Pow2(k) ELSE r, k - 1)

\* half of the finite non-zero r
FHalved(r) == <<r[1], r[2] - 1>>

\* the root of x to fifteen bits, from its mantissa shifted left by s bits
FSqrtRoot(x, s) == FNorm(FRootBits(x[1] * Pow2(s), 0, 14), (x[2] - s) \div 2)

\* the Newton step (r0 + x / r0) / 2
FSqrtNewton(x, r0) == FHalved(FAdd(r0, FDiv(x, r0)))

\* np.sqrt: fifteen bits from the integer root, then one Newton step
FSqrt(x) ==
    IF x = FNaN \/ FSign(x) < 0 THEN FNaN
    ELSE IF x = FInf \/ x[1] = 0 THEN x
    ELSE FSqrtNewton(x, FSqrtRoot(x, IF x[2] % 2 = 0 THEN 10 ELSE 9))

\* the series 1 + f (1 + f / 2 (1 + f / 3 (...))) from term n down
RECURSIVE FExpSeries(_, _, _)
FExpSeries(f, r, n) ==
    IF n = 0 \/ r = FNaN THEN r ELSE FExpSeries(f, FAdd(FOne, FDiv(FMul(f, r), FInt(n))), n - 1)

\* what is left of ln 2 after its first twenty bits, 709 / 2^10 + 801 / 2^20
FLn2Low == <<1044388, -41>>

\* the largest float whose exponential is finite: np.exp overflows above 709.7827
FExpMax == <<726817, -10>>

\* r 2^k for the positive r
FExpScaled(r, k) == FNorm(r[1], r[2] + k)

\* 2^k exp(yh + yl - k ln 2)
FExpReduced(yh, yl, k) ==
    FExpScaled(FExpSeries(FAdd(FSub(FSub(yh, FSigned(k * 709, -10)), FSigned(k * 801, -20)),
                               FSub(yl, FMul(FInt(k), FLn2Low))), FOne, 9), k)

\* exp(yh + yl) for the rounded sum s of the finite yh and yl
FExpBounded(yh, yl, s) ==
    IF FLess(FExpMax, s) THEN FInf
    ELSE IF FLess(s, FInt(-746)) THEN FZero
    ELSE FExpReduced(yh, yl, FFloor(FAdd(FDiv(s, FLn2), FHalf)))

\* np.exp of the value yh + yl: exp(y) = 2^k exp(f) with |f| <= ln(2) / 2, where
\* f = y - k ln 2 is formed without rounding from the three parts of ln 2; inf
\* above 709.78, and below -708.4 the multiples of 2^-1074, down to 0
FExpPair(yh, yl) ==
    IF yh = FNaN \/ yh = FInf THEN yh
    ELSE IF yh = FNegInf THEN FZero
    ELSE FExpBounded(yh, yl, FAdd(yh, yl))

\* np.exp of the value of a pair
FExpOfPair(y) == FExpPair(y[1], y[2])

\* np.exp
FExp(y) == FExpPair(y, FZero)

\* the series 1 / 1 + z2 (1 / 3 + z2 (1 / 5 + ...)) from the term 1 / n down
RECURSIVE FLnSeries(_, _, _)
FLnSeries(z2, r, n) ==
    IF n < 1 \/ r = FNaN THEN r ELSE FLnSeries(z2, FAdd(FMul(z2, r), FDiv(FOne, FInt(n))), n - 2)

\* the k and the u of x = u 2^k with u between 1 / sqrt(2) and sqrt(2), for a finite
\* x > 0
FLnExponent(x) == x[2] + (IF x[1] >= 741455 THEN 20 ELSE 19)

FLnFraction(x) == <<x[1], IF x[1] >= 741455 THEN -20 ELSE -19>>

\* k ln 2 + 2 z (1 + z^2 / 3 + z^4 / 5 + ...)
FLnOf(k, z) ==
    FAdd(FMul(FInt(k), FLn2), FMul(FMul(FTwo, z), FLnSeries(FMul(z, z), FZero, 11)))

FLnRatio(k, u) == FLnOf(k, FDiv(FSub(u, FOne), FAdd(u, FOne)))

\* np.log: x = u 2^k with u between 1 / sqrt(2) and sqrt(2), and
\* ln u = 2 artanh((u - 1) / (u + 1)); ln 0 is -inf, ln of a negative number is nan
FLn(x) ==
    IF x = FNaN \/ FSign(x) < 0 THEN FNaN
    ELSE IF x = FInf THEN FInf
    ELSE IF x[1] = 0 THEN FNegInf
    ELSE FLnRatio(FLnExponent(x), FLnFraction(x))

\* b ** n for a whole number n >= 0, by repeated multiplication
RECURSIVE FPowInt(_, _)
FPowInt(b, n) == IF n = 0 THEN FOne ELSE FMul(b, FPowInt(b, n - 1))

\* a / b for a float a and a pair b, as a pair
FPairDivRest(a, b, q) == FSub(FSub(FSub(a, FMul(q, b[1])), FMulErr(q, b[1])), FMul(q, b[2]))

FPairDivOf(a, b, q) == FPair(q, FDiv(FPairDivRest(a, b, q), b[1]))

FPairDiv(a, b) == FPairDivOf(a, b, FDiv(a, b[1]))

\* the series 1 / 5 + z2 (1 / 7 + z2 (1 / 9 + ...)) from the term 1 / n down
RECURSIVE FLnTail(_, _, _)
FLnTail(z2, r, n) ==
    IF n < 5 \/ r = FNaN THEN r ELSE FLnTail(z2, FAdd(FMul(z2, r), FDiv(FOne, FInt(n))), n - 2)

\* ln x as a pair, for a finite x > 0: x = u 2^k as in FLn, k ln 2 from the three
\* parts of ln 2, and ln u = 2 z (1 + z^2 (1 / 3 + z^2 (1 / 5 + ...))) with
\* z = (u - 1) / (u + 1), the leading terms on pairs
FLnPairWhole(k) ==
    FPairAdd(FPairAdd(<<FSigned(k * 709, -10), FZero>>, <<FSigned(k * 801, -20), FZero>>),
             <<FMul(FInt(k), FLn2Low), FZero>>)

FTwice(v) == IF v[1] = 0 THEN v ELSE <<v[1], v[2] + 1>>

FPairTwice(l) == <<FTwice(l[1]), FTwice(l[2])>>

FLnPairThird(z2) ==
    FPairAdd(FPairDiv(FOne, <<FInt(3), FZero>>),
             <<FMul(z2[1], FLnTail(z2[1], FZero, 13)), FZero>>)

FLnPairSeries(z, z2) ==
    FPairTwice(FPairMul(z, FPairAdd(<<FOne, FZero>>, FPairMul(z2, FLnPairThird(z2)))))

FLnPairOf(k, z) == FPairAdd(FLnPairWhole(k), FLnPairSeries(z, FPairMul(z, z)))

FLnPairRatio(k, u) ==
    FLnPairOf(k, FPairDiv(FSub(u, FOne), <<FAdd(u, FOne), FAddErr(u, FOne)>>))

FLnPair(x) == FLnPairRatio(FLnExponent(x), FLnFraction(x))

\* b ** p for b >= 0 (0 and inf included) and a finite p # 0: exp(p ln b), the
\* logarithm and the product carried as pairs
FPowPositive(b, p) ==
    FExpOfPair(IF b[1] = 0 THEN <<FMul(p, FLn(b)), FZero>> ELSE FPairMul(<<p, FZero>>, FLnPair(b)))

\* np.power(b, p): x ** 0 and 1 ** y are 1 even for nan; a negative base has a
\* power only with a whole exponent
FPow(b, p) ==
    IF p = FZero \/ b = FOne THEN FOne
    ELSE IF p = FNaN \/ b = FNaN THEN FNaN
    ELSE IF FIsInf(p)
         THEN (IF FAbs(b) = FOne THEN FOne
               ELSE IF FLess(FOne, FAbs(b)) = (p = FInf) THEN FInf ELSE FZero)
    ELSE IF FSign(b) < 0 /\ b # FNegInf /\ ~FIsWhole(p) THEN FNaN
    ELSE FNegIf(FPowPositive(FAbs(b), p), FSign(b) < 0 /\ FIsWhole(p) /\ FFloor(p) % 2 = 1)

\* the series 1 - (1 / 6) t + (3 / 40) t^2 - ... of asinh(x) / x in t = x^2, from
\* term n down: the quotient of the terms n + 1 and n is
\* -t (2 n + 1)^2 / ((2 n + 2) (2 n + 3))
RECURSIVE FAsinhSeries(_, _, _)
FAsinhSeries(t, r, n) ==
    IF n < 0 \/ r = FNaN THEN r
    ELSE FAsinhSeries(t, FSub(FOne, FDiv(FMul(FMul(t, r), FInt((2 * n + 1) * (2 * n + 1))),
                                         FInt((2 * n + 2) * (2 * n + 3)))), n - 1)

\* asinh(x) for a finite x > 0: x times the series below 1 / 2, ln(2 x) from 2^11
\* on, where 1 / (4 x^2) is below the last bit and x^2 may overflow, and
\* ln(x + sqrt(1 + x^2)) between
FAsinhPositive(x) ==
    IF FLess(x, FHalf) THEN FMul(x, FAsinhSeries(FMul(x, x), FOne, 11))
    ELSE IF FLeq(FInt(Pow2(11)), x) THEN FAdd(FLn(x), FLn2)
    ELSE FLn(FAdd(x, FSqrt(FAdd(FOne, FMul(x, x)))))

\* np.arcsinh, an odd function; nan, inf, -inf and 0 are returned as they are
FAsinh(x) ==
    IF x = FNaN \/ FIsInf(x) \/ x[1] = 0 THEN x
    ELSE FNegIf(FAsinhPositive(FAbs(x)), FSign(x) < 0)

(***************************************************************************)
(* compute_sum (ionization.py), on floats.                                 *)
(***************************************************************************)
max_idx == 200

MaxAlpha == 1

MaxBeta == 2

MaxNu2 == 3

MaxTol == 1

\* the number of levels of the continued fraction that gives the quadrature
\* to the precision of the mantissa
quad_depth(q) == IF FLess(FOne, q) /\ FLess(q, FInt(100)) THEN 24 ELSE 8

\* the continued fraction 1 + q - 2 q / (3 + q - 4 q / (5 + q - ...)), built from the
\* innermost level outwards: tail is the fraction from level k + 1 on
RECURSIVE quad_fraction(_, _, _)
quad_fraction(q, k, tail) ==
    IF k < 0 \/ tail = FNaN THEN tail
    ELSE quad_fraction(q, k - 1, FSub(FAdd(FInt(2 * k + 1), q),
                                      FDiv(FMul(FInt(2 * (k + 1)), q), tail)))

\* np.exp(-(upper_l**2)) * int_result where the integrand exp(y**2) is finite at
\* every abscissa of the quadrature and upper_l is 2^-1022 or more: the product is
\* x / (1 + q - 2 q / (3 + q - ...)) with x = upper_l and q = 2 x^2
quad_levels(upper_l, q, depth) ==
    FDiv(upper_l, quad_fraction(q, depth - 1, FAdd(FInt(2 * depth + 1), q)))

quad_ratio(upper_l, q) == quad_levels(upper_l, q, quad_depth(q))

\* 2^-1022, the smallest normal double
FMinNormal == <<Pow2(19), FMinExp + 52 - 19>>

\* below 2^-1022 the quadrature ends with its first rule on [0, upper_l]: the
\* half-length 0.5 * upper_l is rounded to a multiple of 2^-1074, a tie going to the
\* even one, the integrand is 1.0 at every abscissa and the weights add up to 2.0;
\* np.exp(-(upper_l**2)) is 1.0
quad_first_rule(upper_l) == FMul(FTwo, FMul(FHalf, upper_l))

quad_product(upper_l) ==
    IF FLess(upper_l, FMinNormal) THEN quad_first_rule(upper_l)
    ELSE quad_ratio(upper_l, FMul(FTwo, FMul(upper_l, upper_l)))

\* the outcome of a call that ends in an OverflowError
OverflowError == <<0, 3>>

\* the outcome of a call that ends in a ValueError
ValueError == <<0, 4>>

\* quad(integrand, 0, upper_l) evaluates integrand(y) = np.exp(y**2) at abscissae
\* inside the range.  Up to quad_finite_limit every value is finite: the range is
\* halved seven times at its upper end, and the largest abscissa,
\* upper_l * (1 - 1.6964e-5), has y**2 <= 709.7827.  Beyond it np.exp(y**2)
\* overflows at an abscissa and int_result is inf.  From quad_raise_limit on, the
\* largest abscissa of the first rule, 0.99783 * upper_l, is 2^512 or more, and
\* y**2 itself raises OverflowError.
quad_finite_limit == <<873011, -15>>

quad_raise_limit == <<525429, 493>>

\* phi_integral(upper_l): 0.0 for upper_l <= 0, else np.exp(-(upper_l**2)) * int_result.
\* With int_result = inf the product is inf up to upper_l**2 = 745.13 and nan above,
\* where np.exp(-(upper_l**2)) is 0; a nan limit gives nan, and so does an infinite
\* one (int_result = inf)
phi_integral(upper_l) ==
    IF upper_l = FNaN THEN FNaN
    ELSE IF FLeq(upper_l, FZero) THEN FZero
    ELSE IF upper_l = FInf THEN FNaN
    ELSE IF FLeq(quad_raise_limit, upper_l) THEN OverflowError
    ELSE IF FLeq(upper_l, quad_finite_limit) THEN quad_product(upper_l)
    ELSE FMul(FExp(FNeg(FMul(upper_l, upper_l))), FInf)

\* sum_term of one loop iteration:
\* np.exp(-alpha_s * (idx - nu_thr)) * phi_integral(np.sqrt(beta_s * (idx - nu_thr))).
\* The difference d and the argument of np.exp keep, as pairs, the digits they have in
\* the code.  An OverflowError of phi_integral ends the evaluation (np.sqrt of a
\* finite value is below quad_raise_limit)
series_product(e, phi) == IF phi = OverflowError THEN OverflowError ELSE FMul(e, phi)

series_term_at(alpha_s, beta_s, d) ==
    series_product(FExpOfPair(FPairMul(<<FNeg(alpha_s), FZero>>, d)),
                   phi_integral(FSqrt(FMul(beta_s, d[1]))))

series_term(alpha_s, beta_s, idx, nu_thr) ==
    series_term_at(alpha_s, beta_s, <<FSub(FInt(idx), nu_thr), FAddErr(FInt(idx), FNeg(nu_thr))>>)

\* the tolerance t / 100
tol_of(t) == FDiv(FInt(t), FInt(100))

\* the arguments of a call: alpha_s = a and beta_s = b whole, idx_ppt_s = n and
\* coef_nu = 1 / 2 (so that nu_thr is a whole or a half number), tol = t / 100
SumCall(a, b, n, t) ==
    [alpha_s |-> FInt(a), beta_s |-> FInt(b), idx_ppt_s |-> FInt(n), coef_nu |-> FHalf,
     tol |-> tol_of(t)]

SumArgs(alpha_s, beta_s, idx_ppt_s, coef_nu, tol) ==
    [alpha_s |-> alpha_s, beta_s |-> beta_s, idx_ppt_s |-> idx_ppt_s, coef_nu |-> coef_nu,
     tol |-> tol]

\* calls at and beyond the edges of the range of the terms: beta_s (idx - nu_thr) at
\* and past the value where exp(y**2) overflows, a negative beta_s, a negative, a
\* fractional and a large alpha_s, a negative and a fractional nu_thr, tolerances 2,
\* -1, inf and nan, non-finite alpha_s and beta_s, and a nan and an infinite
\* idx_ppt_s, for which idx_min is not defined
SumEdgeInputs ==
    {SumArgs(FZero, <<726816, -10>>, FZero, FHalf, FTwo),
     SumArgs(FZero, FInt(800), FZero, FHalf, tol_of(1)),
     SumArgs(FZero, FInt(720), FZero, FHalf, tol_of(1)),
     SumArgs(FZero, FInt(-1), FOne, FHalf, tol_of(1)),
     SumArgs(FInt(-1), FOne, FOne, FHalf, tol_of(1)),
     SumArgs(FInt(-4), FOne, FOne, FHalf, tol_of(1)),
     SumArgs(FDiv(FInt(37), FInt(100)), FDiv(FInt(13), FInt(10)), FDiv(FInt(5), FTwo), FHalf,
             tol_of(1)),
     SumArgs(FInt(800), FOne, FZero, FHalf, tol_of(1)),
     SumArgs(FOne, FTwo, FInt(-3), FHalf, tol_of(1)),
     SumArgs(FOne, FTwo, FInt(7), FDiv(FInt(3), FInt(10)), tol_of(1)),
     SumArgs(FOne, FOne, FOne, FHalf, FNaN),
     SumArgs(FOne, FOne, FOne, FHalf, FInt(-1)),
     SumArgs(FOne, FOne, FZero, FHalf, FInf),
     SumArgs(FNaN, FOne, FOne, FHalf, tol_of(1)),
     SumArgs(FInf, FOne, FZero, FHalf, tol_of(1)),
     SumArgs(FOne, FInf, FZero, FHalf, tol_of(1)),
     SumArgs(FOne, FOne, FNaN, FHalf, tol_of(1)),
     SumArgs(FOne, FOne, FInf, FHalf, tol_of(1))}

\* the calls: every combination with a non-zero tolerance, the zero tolerance, which
\* no term can meet, with the largest alpha_s and beta_s, and the calls at the edges
SumInputs ==
    {SumCall(a, b, n, t) : a \in 0..MaxAlpha, b \in 0..MaxBeta, n \in 0..MaxNu2, t \in 1..MaxTol}
    \cup {SumCall(MaxAlpha, MaxBeta, n, 0) : n \in 0..MaxNu2}
    \cup SumEdgeInputs

\* the frame of compute_sum right before the while loop; int(np.ceil(nu_thr)) raises
\* for a nan or an infinite nu_thr
SumFrame(in) ==
    LET nu_thr == FMul(in.coef_nu, in.idx_ppt_s)
        idx_min == IF ~FIsFinite(nu_thr) THEN 0 ELSE FCeil(nu_thr)
    IN  [alpha_s |-> in.alpha_s, beta_s |-> in.beta_s, nu_thr |-> nu_thr, tol |-> in.tol,
         idx_min |-> idx_min, idx |-> idx_min, sum_value |-> FZero, sum_term |-> FZero,
         evaluated |-> <<>>, pc |-> IF ~FIsFinite(nu_thr) THEN "raised" ELSE "loop",
         ret |-> FZero]

SumIdle == [pc |-> "idle"]

\* a convergence test that also stops on a tie
converged_on_tie(sum_term, tol, sum_value) == FLeq(sum_term, FMul(tol, sum_value))

\* the convergence test of the loop: if sum_term < tol * sum_value: break
converged(sum_term, tol, sum_value) == FLess(sum_term, FMul(tol, sum_value))

\* a cap test that lets one more term through
cap_reached_late(idx, idx_min) == idx > idx_min + max_idx + 1

\* the cap test of the loop: if idx > idx_min + max_idx: break
cap_reached(idx, idx_min) == idx > idx_min + max_idx

\* one pass of the while True loop, up to a break or the next pass; an exception of
\* the term leaves the call before sum_value is updated
compute_sum_iter ==
    /\ csum.pc = "loop"
    /\ \E sum_term \in {series_term(csum.alpha_s, csum.beta_s, csum.idx, csum.nu_thr)} :
       \E sum_value \in {FAdd(csum.sum_value, sum_term)} :
           LET conv == converged(sum_term, csum.tol, sum_value)
               idx == csum.idx + 1
               stop == conv \/ cap_reached(idx, csum.idx_min)
           IN  IF sum_term = OverflowError
               THEN csum' = [csum EXCEPT !.evaluated = Append(@, csum.idx), !.pc = "raised"]
               ELSE csum' = [csum EXCEPT !.sum_value = sum_value,
                                         !.sum_term = sum_term,
                                         !.evaluated = Append(@, csum.idx),
                                         !.idx = IF conv THEN @ ELSE idx,
                                         !.pc = IF stop THEN "returned" ELSE "loop",
                                         !.ret = IF stop THEN sum_value ELSE @]
    /\ UNCHANGED <<ram, fcn, fss, adi, ion, mat, rout, scn>>

(***************************************************************************)
(* Arrays.  A two-dimensional array a[r][t] has rows 0..M-1 (radius) and  *)
(* columns 0..N-1 (time).  A column a[:, t] is a vector over the rows.    *)
(***************************************************************************)
Idx(n) == 0..(n - 1)

Full(m, n, v) == [r \in Idx(m) |-> [t \in Idx(n) |-> v]]

\* an array whose column t holds c[t] in every row
ByColumn(m, c) == [r \in Idx(m) |-> c]

Col(a, t) == [r \in DOMAIN a |-> a[r][t]]

SetCol(a, t, v) == [r \in DOMAIN a |-> [a[r] EXCEPT ![t] = v[r]]]

VConst(u, c) == [r \in DOMAIN u |-> c]

VAdd(u, v) == [r \in DOMAIN u |-> Add(u[r], v[r])]

VSub(u, v) == [r \in DOMAIN u |-> Sub(u[r], v[r])]

VMul(u, v) == [r \in DOMAIN u |-> Mul(u[r], v[r])]

VScale(c, u) == [r \in DOMAIN u |-> Mul(c, u[r])]

\* u / d for a divisor d that divides every finite entry exactly
VDiv(u, d) == [r \in DOMAIN u |-> IF u[r] = NonFinite THEN NonFinite ELSE u[r] \div d]

AllFinite(a) == \A r \in DOMAIN a : \A t \in DOMAIN a[r] : isfinite(a[r][t])

\* the time and distance steps are multiples of 6, so that dt / 2 and dt / 6 are exact
DtUnits == 1

StepLen == 6 * DtUnits

(***************************************************************************)
(* compute_raman (raman.py): the prange loop over the time index ll.      *)
(* Every iteration is a parallel unit.  ram_s and dram_s are views of the *)
(* columns ram_a[:, ll] and dram_a[:, ll], not copies: _rk4_raman_step    *)
(* reads the columns each time a statement uses a view, and k1_ram, which *)
(* _set_raman returns as its argument dram_s_a, is the view dram_s too.   *)
(* A column has NrRam = 1 element, so each use of a view is one read of   *)
(* memory.  The reads of an iteration and its two stores (lines 45, 46)   *)
(* are separate steps, and the units interleave freely.                    *)
(***************************************************************************)
NrRam == 1

NtRam == 3

MaxC1 == 1

\* the column an iteration reads at each use of a view, in program order:
\* lines 78 (ram_s_a, dram_s_a), 79 (ram_s_a, k1_ram), 80, 83, 84, 87, 88,
\* 92 (ram_s_a, k1_ram), 93
RamReads ==
    <<"ram_a", "dram_a", "ram_a", "dram_a", "dram_a", "ram_a", "dram_a", "ram_a", "dram_a",
      "ram_a", "dram_a", "dram_a">>

\* what the view ram_s yielded at its five uses, and dram_s at its seven
ram_view(seen) == <<seen[1], seen[3], seen[6], seen[8], seen[10]>>

dram_view(seen) == <<seen[2], seen[4], seen[5], seen[7], seen[9], seen[11], seen[12]>>

\* a view of a column that nobody writes meanwhile: n uses, all yielding v
SteadyView(v, n) == [i \in 1..n |-> v]

\* ram_c1_a * (int_s_a - ram_s_a) + ram_c2_a * dram_s_a, the second value of
\* return dram_s_a, ram_c1_a * (int_s_a - ram_s_a) + ram_c2_a * dram_s_a;
\* the first value is the argument dram_s_a itself
set_raman(ram_s_a, dram_s_a, int_s_a, ram_c1_a, ram_c2_a) ==
    VAdd(VScale(ram_c1_a, VSub(int_s_a, ram_s_a)), VScale(ram_c2_a, dram_s_a))

\* a two-stage (midpoint) step of the same system
rk4_raman_step_midpoint(ram_s_a, dram_s_a, int_s_a, ram_c1_a, ram_c2_a, dt) ==
    LET half == dt \div 2
        k1_dram == set_raman(ram_s_a[1], dram_s_a[1], int_s_a, ram_c1_a, ram_c2_a)
        ram_1 == VAdd(ram_s_a[2], VScale(half, dram_s_a[2]))
        dram_1 == VAdd(dram_s_a[3], VScale(half, k1_dram))
        k2_dram == set_raman(ram_1, dram_1, int_s_a, ram_c1_a, ram_c2_a)
    IN  <<VAdd(ram_s_a[5], VScale(dt, dram_1)), VAdd(dram_s_a[7], VScale(dt, k2_dram))>>

\* _rk4_raman_step; ram_s_a[i] and dram_s_a[i] are what the views yield at their
\* i-th use, and k1_ram of lines 79 and 92 is a use of dram_s_a
rk4_raman_step(ram_s_a, dram_s_a, int_s_a, ram_c1_a, ram_c2_a, dt) ==
    LET half == dt \div 2
        k1_dram == set_raman(ram_s_a[1], dram_s_a[1], int_s_a, ram_c1_a, ram_c2_a)
        ram_1 == VAdd(ram_s_a[2], VScale(half, dram_s_a[2]))
        dram_1 == VAdd(dram_s_a[3], VScale(half, k1_dram))
        k2_ram == dram_1
        k2_dram == set_raman(ram_1, dram_1, int_s_a, ram_c1_a, ram_c2_a)
        ram_2 == VAdd(ram_s_a[3], VScale(half, k2_ram))
        dram_2 == VAdd(dram_s_a[4], VScale(half, k2_dram))
        k3_ram == dram_2
        k3_dram == set_raman(ram_2, dram_2, int_s_a, ram_c1_a, ram_c2_a)
        ram_3 == VAdd(ram_s_a[4], VScale(dt, k3_ram))
        dram_3 == VAdd(dram_s_a[5], VScale(dt, k3_dram))
        k4_ram == dram_3
        k4_dram == set_raman(ram_3, dram_3, int_s_a, ram_c1_a, ram_c2_a)
        s_ram == VAdd(VAdd(dram_s_a[6], VScale(2, k2_ram)), VAdd(VScale(2, k3_ram), k4_ram))
        s_dram == VAdd(VAdd(k1_dram, VScale(2, k2_dram)), VAdd(VScale(2, k3_dram), k4_dram))
    IN  <<VAdd(ram_s_a[5], VDiv(VScale(dt, s_ram), 6)),
          VAdd(dram_s_a[7], VDiv(VScale(dt, s_dram), 6))>>

\* the elements of column t of the named array
Elems(name, m, t) == {<<name, r, t>> : r \in Idx(m)}

RamIters == Idx(NtRam - 1)

\* what the arrays may hold before the call: in every column zeros, or ones left by
\* an earlier call
RamPrior == {ByColumn(NrRam, c) : c \in [Idx(NtRam) -> {0, 1}]}

RamInputs == {Full(NrRam, NtRam, v) : v \in {0, 1}}

RamIdle == [pc |-> "idle"]

\* unit[ll] is the position of iteration ll, seen[ll] what its views have yielded
RamFrame(ram_a, dram_a, int_a, c1) ==
    [ram_a |-> ram_a, dram_a |-> dram_a, int_a |-> int_a,
     ram_c1_a |-> c1, ram_c2_a |-> 0, dt |-> StepLen,
     pc |-> "entry",
     unit |-> [ll \in RamIters |-> "step"],
     seen |-> [ll \in RamIters |-> <<>>],
     reads |-> [ll \in RamIters |-> {}],
     writes |-> [ll \in RamIters |-> {}]]

\* ram_a[:, 0], dram_a[:, 0] = 0, 0 and the start of the prange loop
compute_raman_entry ==
    /\ ram.pc = "entry"
    /\ ram' = [ram EXCEPT !.ram_a = SetCol(@, 0, VConst(Col(@, 0), 0)),
                          !.dram_a = SetCol(@, 0, VConst(Col(@, 0), 0)),
                          !.pc = "prange"]
    /\ UNCHANGED <<csum, fcn, fss, adi, ion, mat, rout, scn>>

\* iteration ll, inside _rk4_raman_step, reads a column through a view
compute_raman_read(ll) ==
    /\ ram.pc = "prange"
    /\ ram.unit[ll] = "step"
    /\ LET n == Len(ram.seen[ll]) + 1
           column == IF RamReads[n] = "ram_a" THEN Col(ram.ram_a, ll) ELSE Col(ram.dram_a, ll)
       IN  ram' = [ram EXCEPT !.seen[ll] = Append(@, column),
                              !.unit[ll] = IF n = Len(RamReads) THEN "store_ram" ELSE "step",
                              !.reads[ll] = @ \cup Elems(RamReads[n], NrRam, ll)
                                              \cup Elems("int_a", NrRam, ll)]
    /\ UNCHANGED <<csum, fcn, fss, adi, ion, mat, rout, scn>>

\* what _rk4_raman_step returns to iteration ll
raman_step_result(ll) ==
    rk4_raman_step(ram_view(ram.seen[ll]), dram_view(ram.seen[ll]), Col(ram.int_a, ll),
                   ram.ram_c1_a, ram.ram_c2_a, ram.dt)

\* line 45 of iteration ll: ram_a[:, ll + 1] = ram_s_rk4
compute_raman_store_ram(ll) ==
    /\ ram.pc = "prange"
    /\ ram.unit[ll] = "store_ram"
    /\ ram' = [ram EXCEPT !.unit[ll] = "store_dram",
                          !.ram_a = SetCol(@, ll + 1, raman_step_result(ll)[1]),
                          !.writes[ll] = @ \cup Elems("ram_a", NrRam, ll + 1)]
    /\ UNCHANGED <<csum, fcn, fss, adi, ion, mat, rout, scn>>

\* line 46 of iteration ll: dram_a[:, ll + 1] = dram_s_rk4
compute_raman_store_dram(ll) ==
    /\ ram.pc = "prange"
    /\ ram.unit[ll] = "store_dram"
    /\ ram' = [ram EXCEPT !.unit[ll] = "done",
                          !.dram_a = SetCol(@, ll + 1, raman_step_result(ll)[2]),
                          !.writes[ll] = @ \cup Elems("dram_a", NrRam, ll + 1)]
    /\ UNCHANGED <<csum, fcn, fss, adi, ion, mat, rout, scn>>

\* the end of the prange loop: every iteration has finished
compute_raman_return ==
    /\ ram.pc = "prange"
    /\ \A ll \in RamIters : ram.unit[ll] = "done"
    /\ ram' = [ram EXCEPT !.pc = "returned"]
    /\ UNCHANGED <<csum, fcn, fss, adi, ion, mat, rout, scn>>

\* the recurrence run in the order of the time index, from ram[:, 0] = dram[:, 0] = 0
RECURSIVE SeqRaman(_, _, _, _, _)
SeqRaman(ll, int_a, c1, c2, dt) ==
    IF ll = 0 THEN <<VConst(Col(int_a, 0), 0), VConst(Col(int_a, 0), 0)>>
    ELSE LET p == SeqRaman(ll - 1, int_a, c1, c2, dt)
         IN  rk4_raman_step(SteadyView(p[1], 5), SteadyView(p[2], 7), Col(int_a, ll - 1),
                            c1, c2, dt)

(***************************************************************************)
(* FCNSolver (water_2d1_fcn_rk4.py)                                        *)
(***************************************************************************)
NrFcn == 3

NtFcn == 3

MaxSteps == 3

MaxDistLimit == 2

\* matrices are dense functions m[i][j]; a zero entry is an entry that is not stored
MatVec(m, x) ==
    [i \in DOMAIN m |->
        LET nz == {j \in DOMAIN m[i] : m[i][j] # 0}
            F[S \in SUBSET nz] ==
                IF S = {} THEN 0
                ELSE LET j == CHOOSE k \in S : TRUE
                     IN  Add(Mul(m[i][j], x[j]), F[S \ {j}])
        IN  F[nz]]

(***************************************************************************)
(* The diffraction operators (compute_matrix of fss.py and                *)
(* crank_nicolson_matrix of water_2d1_fcn_rk4.py).  The entries are exact *)
(* fractions <<numerator, denominator>>; a one-dimensional array is a     *)
(* sequence, whose element k + 1 is the element of index k of the array.  *)
(***************************************************************************)
MaxNr == 5

MaxCoef == 2

Rat(n, d) == <<n, d>>

RatEq(a, b) == a[1] * b[2] = b[1] * a[2]

RatFloor(a) == a[1] \div a[2]

\* the three diagonals without the axis condition diag_upper[0] = -2 * coef_d
cn_diagonals_no_axis(n_r, pos, coef) ==
    LET r_ind == [k \in 1..(n_r - 2) |-> k]
    IN  [diag_lower |-> Append([k \in 1..(n_r - 2) |->
                                   Rat(-coef * (2 * r_ind[k] - 1), 2 * r_ind[k])], Rat(0, 1)),
         diag_main |-> [k \in 1..n_r |->
                           IF k = n_r THEN Rat(IF pos = "left" THEN 1 ELSE 0, 1)
                           ELSE Rat(1 + 2 * coef, 1)],
         diag_upper |-> <<Rat(0, 1)>> \o [k \in 1..(n_r - 2) |->
                                   Rat(-coef * (2 * r_ind[k] + 1), 2 * r_ind[k])]]

\* diag_lower, diag_main and diag_upper after the boundary conditions
cn_diagonals(n_r, pos, coef) ==
    LET coef_main == Rat(1 + 2 * coef, 1)
        r_ind == [k \in 1..(n_r - 2) |-> k]
        lower == [k \in 1..(n_r - 2) |-> Rat(-coef * (2 * r_ind[k] - 1), 2 * r_ind[k])]
        upper == [k \in 1..(n_r - 2) |-> Rat(-coef * (2 * r_ind[k] + 1), 2 * r_ind[k])]
        diag_lower == Append(lower, Rat(0, 1))
        diag_upper == <<Rat(0, 1)>> \o upper
        diag_main == [k \in 1..n_r |-> coef_main]
    IN  [diag_lower |-> diag_lower,
         diag_main |-> [diag_main EXCEPT ![1] = coef_main,
                                         ![n_r] = Rat(IF pos = "left" THEN 1 ELSE 0, 1)],
         diag_upper |-> [diag_upper EXCEPT ![1] = Rat(-2 * coef, 1)]]

\* diags_array(diags, offsets=[-1, 0, 1]): element k of the diagonal of offset o is
\* the entry (k - min(o, 0), k + max(o, 0))
diags_array(d, n) ==
    [i \in Idx(n) |-> [j \in Idx(n) |->
        IF j = i THEN d.diag_main[i + 1]
        ELSE IF j = i - 1 THEN d.diag_lower[i]
        ELSE IF j = i + 1 THEN d.diag_upper[i + 1]
        ELSE Rat(0, 1)]]

\* band_matrix[0, 1:] = diag_upper; band_matrix[1, :] = diag_main;
\* band_matrix[2, :-1] = diag_lower, on np.zeros((3, n_r))
band_matrix(d, n) ==
    [b \in 0..2 |-> [j \in Idx(n) |->
        IF b = 0 THEN (IF j >= 1 THEN d.diag_upper[j] ELSE Rat(0, 1))
        ELSE IF b = 1 THEN d.diag_main[j + 1]
        ELSE (IF j <= n - 2 THEN d.diag_lower[j + 1] ELSE Rat(0, 1))]]

\* the matrix solve_banded((1, 1), ab, .) solves with: a[i, j] = ab[1 + i - j, j]
banded_dense(ab, n) ==
    [i \in Idx(n) |-> [j \in Idx(n) |->
        IF i - j \in {-1, 0, 1} THEN ab[1 + i - j][j] ELSE Rat(0, 1)]]

\* the arguments of a call that builds an operator
MatCall(fn, n_r, m_p, coef_d) ==
    [pc |-> "call", fn |-> fn, n_r |-> n_r, m_p |-> m_p, coef_d |-> coef_d, result |-> <<>>]

\* SolverFSS.compute_matrix: the banded array for "left", the DIA array for "right"
compute_matrix_call ==
    /\ mat.pc = "call"
    /\ mat.fn = "compute_matrix"
    /\ LET d == cn_diagonals(mat.n_r, mat.m_p, mat.coef_d)
       IN  mat' = [mat EXCEPT !.pc = "returned",
                              !.result = IF mat.m_p = "left" THEN band_matrix(d, mat.n_r)
                                         ELSE diags_array(d, mat.n_r)]
    /\ UNCHANGED <<csum, ram, fcn, fss, adi, ion, rout, scn>>

\* crank_nicolson_matrix of the FCN solver: the CSC array for both positions
crank_nicolson_matrix_call ==
    /\ mat.pc = "call"
    /\ mat.fn = "crank_nicolson_matrix"
    /\ mat' = [mat EXCEPT !.pc = "returned",
                          !.result = diags_array(cn_diagonals(mat.n_r, mat.m_p, mat.coef_d),
                                                 mat.n_r)]
    /\ UNCHANGED <<csum, ram, fcn, fss, adi, ion, rout, scn>>

\* crank_nicolson_matrix(n_r, pos, coef) as a matrix of numbers, for a coefficient
\* that 2 * ind divides
crank_nicolson_matrix(n_r, pos, coef) ==
    LET a == diags_array(cn_diagonals(n_r, pos, coef), n_r)
    IN  [i \in Idx(n_r) |-> [j \in Idx(n_r) |-> RatFloor(a[i][j])]]

\* splu(left_matrix).solve(d): the x with left_matrix x = d.  The model runs without
\* diffraction (delta_r = 0), where the left matrix is the identity.
lu_solve(lm, d) == CHOOSE x \in {d} : MatVec(lm, x) = d

set_density_operator(density, field, n_ph, neutral_dens, ofi_coef, ava_coef) ==
    LET field_2 == [r \in DOMAIN field |-> Pow(Abs(field[r]), 2)]
        field_2n == [r \in DOMAIN field |-> Pow(field_2[r], n_ph)]
        ofi == VMul(VScale(ofi_coef, field_2n), VSub(VConst(density, neutral_dens), density))
        ava == VMul(VScale(ava_coef, density), field_2)
    IN  VAdd(ofi, ava)

rk4_density_step(e_curr, n_curr, a, dt, dt2, dt6) ==
    LET op(n) == set_density_operator(n, e_curr, a.n_ph, a.neutral_dens, a.ofi_coef, a.ava_coef)
        k1_d == op(n_curr)
        k2_d == op(VAdd(n_curr, VScale(dt2, k1_d)))
        k3_d == op(VAdd(n_curr, VScale(dt2, k2_d)))
        k4_d == op(VAdd(n_curr, VScale(dt, k3_d)))
    IN  VAdd(n_curr, VScale(dt6, VAdd(VAdd(k1_d, VScale(2, k2_d)), VAdd(VScale(2, k3_d), k4_d))))

\* the elements iteration ll of the prange loop of solve_density reads and writes
solve_density_reads(ll) == Elems("e_c", NrFcn, ll) \cup Elems("n_c", NrFcn, ll)

solve_density_writes(ll) == Elems("n_n", NrFcn, ll + 1)

\* a sweep that starts from the boundary values the buffers hold
solve_density_no_reset(e_c, n_c, n_n, n_t, a, dt, dt2, dt6) ==
    LET out == [ll \in Idx(n_t - 1) |-> rk4_density_step(Col(e_c, ll), Col(n_c, ll), a, dt, dt2, dt6)]
    IN  <<[r \in DOMAIN n_n |-> [t \in Idx(n_t) |-> IF t = 0 THEN n_n[r][0] ELSE out[t - 1][r]]], n_c>>

\* solve_density: <<n_n, n_c>> after the call.  The iterations of the prange loop
\* read e_c and n_c and write n_n only, so their order does not matter.
solve_density(e_c, n_c, n_n, n_t, a, dt, dt2, dt6) ==
    LET n_c0 == SetCol(n_c, 0, VConst(Col(n_c, 0), 0))
        out == [ll \in Idx(n_t - 1) |-> rk4_density_step(Col(e_c, ll), Col(n_c0, ll), a, dt, dt2, dt6)]
    IN  <<[r \in DOMAIN n_n |-> [t \in Idx(n_t) |-> IF t = 0 THEN 0 ELSE out[t - 1][r]]], n_c0>>

set_field_operator(field, density, n_ph, p_coef, m_coef, k_coef) ==
    LET field_2 == [r \in DOMAIN field |-> Pow(Abs(field[r]), 2)]
        field_2k2 == [r \in DOMAIN field |-> Pow(field_2[r], n_ph - 1)]
    IN  VMul(field, VAdd(VAdd(VScale(p_coef, density), VScale(m_coef, field_2k2)),
                         VScale(k_coef, field_2)))

rk4_field_step(e_curr, n_curr, a, dz, dz2, dz6) ==
    LET op(e) == set_field_operator(e, n_curr, a.n_ph, a.p_coef, a.m_coef, a.k_coef)
        k1_f == op(e_curr)
        k2_f == op(VAdd(e_curr, VScale(dz2, k1_f)))
        k3_f == op(VAdd(e_curr, VScale(dz2, k2_f)))
        k4_f == op(VAdd(e_curr, VScale(dz, k3_f)))
    IN  VScale(dz6, VAdd(VAdd(k1_f, VScale(2, k2_f)), VAdd(VScale(2, k3_f), k4_f)))

solve_nonlinear_reads(ll) == Elems("e_c", NrFcn, ll) \cup Elems("n_c", NrFcn, ll)

solve_nonlinear_writes(ll) == Elems("w_c", NrFcn, ll)

\* solve_nonlinear: w_c after the call
solve_nonlinear(e_c, n_c, n_t, a, dz, dz2, dz6) ==
    LET out == [ll \in Idx(n_t) |-> rk4_field_step(Col(e_c, ll), Col(n_c, ll), a, dz, dz2, dz6)]
    IN  [r \in DOMAIN e_c |-> [t \in Idx(n_t) |-> out[t][r]]]

\* 2 cos(2 pi j / n), a whole number for the lengths n = 1, 2, 3, 4 and 6
TwoCos(j, n) ==
    LET k == j % n
    IN  IF k = 0 THEN 2
        ELSE IF 2 * k = n THEN -2
        ELSE IF 4 * k = n \/ 4 * k = 3 * n THEN 0
        ELSE IF 3 * k = n \/ 3 * k = 2 * n THEN -1
        ELSE 1

RECURSIVE SumOver(_, _)
SumOver(f, n) == IF n = 0 THEN 0 ELSE SumOver(f, n - 1) + f[n - 1]

\* sample t of ifft(fc * fft(x)) for a finite real row x and finite real coefficients:
\* (1 / n) sum_s x[s] sum_k fc[k] cos(2 pi k (t - s) / n), the real part of the
\* circular convolution of x with ifft(fc).  The quotient is exact for the
\* coefficients of the model; it is written with the floor of the integers.
spectral_sample(fc, x, t, n) ==
    LET kernel(d) == SumOver([k \in Idx(n) |-> fc[k] * TwoCos(k * (d + n), n)], n)
    IN  Fl(SumOver([s \in Idx(n) |-> x[s] * kernel(t - s)], n) \div (2 * n))

\* solve_dispersion: b after the call, b[:] = ifft(fc * fft(e_c, axis=1), axis=1).
\* The transform of a row mixes all its samples: one non-finite sample, or one
\* non-finite coefficient, makes every sample of the row non-finite.  The model
\* runs without group velocity dispersion, with fc identically 1.
solve_dispersion(fc, e_c) ==
    [r \in DOMAIN e_c |->
        IF (\A t \in DOMAIN e_c[r] : isfinite(e_c[r][t])) /\ (\A k \in DOMAIN fc : isfinite(fc[k]))
        THEN [t \in DOMAIN e_c[r] |-> spectral_sample(fc, e_c[r], t, NtFcn)]
        ELSE [t \in DOMAIN e_c[r] |-> NonFinite]]

\* solve_envelope: e_n after the call
solve_envelope(lm, rm, n_t, b, w_c) ==
    LET out == [ll \in Idx(n_t) |-> lu_solve(lm, VAdd(MatVec(rm, Col(b, ll)), Col(w_c, ll)))]
    IN  [r \in DOMAIN b |-> [t \in Idx(n_t) |-> out[t][r]]]

\* the non-finite values that np.argmax tells apart: -inf is below and inf is above
\* every finite value, and a nan counts as the maximum
NegInf == -(MaxAbs + 2)

PosInf == MaxAbs + 2

NaN == MaxAbs + 3

\* np.argmax(v) for finite values, NegInf, PosInf and NaN: the first nan if there
\* is one, and else the first maximum
argmax(v) ==
    LET top == {t \in DOMAIN v : \A u \in DOMAIN v : v[u] <= v[t]}
    IN  CHOOSE t \in top : \A u \in top : t <= u

\* the vectors that v stands for, every NonFinite entry being one of the values kinds
Resolved(v, kinds) ==
    {c \in [DOMAIN v -> kinds \cup {v[t] : t \in DOMAIN v}] :
        \A t \in DOMAIN v : IF v[t] = NonFinite THEN c[t] \in kinds ELSE c[t] = v[t]}

\* the indices np.argmax can return for v: which one depends on the non-finite
\* values, inf or nan for the magnitude of a complex value, and -inf too for a real
peak_nodes(v, kinds) == {argmax(c) : c \in Resolved(v, kinds)}

\* what np.empty may hand out for the density: zeros, or old values in some columns
FcnDensityGarbage ==
    {ByColumn(NrFcn, [t \in Idx(NtFcn) |-> IF t \in S THEN v ELSE 0]) :
        v \in {1, NonFinite}, S \in {{}, {1}, {NtFcn - 1}, Idx(NtFcn)}}

FcnGarbage == {0, 7, NonFinite}

\* initial_envelope: a pulse that is highest on the axis at the peak time
FcnEnvelopes ==
    {[r \in Idx(NrFcn) |-> [t \in Idx(NtFcn) |->
        IF r = 0 /\ t = NtFcn \div 2 THEN 2 * amp ELSE amp]] : amp \in {1}}

axis_node == 0

peak_node == NtFcn \div 2

\* FCNSolver.__init__, setup_operators and set_initial_condition
FcnSolver(n_steps, dist_limit, dens, g, ofi_coef, ava_coef, p_coef, env) ==
    LET limitin == n_steps \div dist_limit
        empty2 == Full(NrFcn, NtFcn, g)
    IN  [n_steps |-> n_steps, dist_limit |-> dist_limit, dist_limitin |-> limitin,
         dz |-> StepLen, dz_2 |-> StepLen \div 2, dz_6 |-> StepLen \div 6,
         dt |-> StepLen, dt_2 |-> StepLen \div 2, dt_6 |-> StepLen \div 6,
         envelope |-> env, density |-> dens,
         next_envelope |-> empty2, next_density |-> empty2,
         b_array |-> empty2, w_array |-> empty2,
         dist_envelope |-> [m \in 0..dist_limit |-> IF m = 0 THEN env ELSE empty2],
         dist_density |-> [m \in 0..dist_limit |-> IF m = 0 THEN Full(NrFcn, NtFcn, 0) ELSE empty2],
         axis_envelope |-> [k \in 0..n_steps |-> IF k = 0 THEN env[axis_node] ELSE [t \in Idx(NtFcn) |-> g]],
         axis_density |-> [k \in 0..n_steps |-> IF k = 0 THEN dens[axis_node] ELSE [t \in Idx(NtFcn) |-> g]],
         peak_envelope |-> [k \in 0..n_steps |-> IF k = 0 THEN Col(env, peak_node) ELSE [r \in Idx(NrFcn) |-> g]],
         peak_density |-> [k \in 0..n_steps |-> IF k = 0 THEN Col(dens, peak_node) ELSE [r \in Idx(NrFcn) |-> g]],
         k_array |-> [m \in 0..dist_limit |-> IF m = 0 THEN 0 ELSE g],
         field_op_args |-> [n_ph |-> 1, p_coef |-> p_coef, m_coef |-> 0, k_coef |-> 0],
         dens_op_args |-> [n_ph |-> 1, neutral_dens |-> 1, ofi_coef |-> ofi_coef, ava_coef |-> ava_coef],
         fourier_coeff |-> [t \in Idx(NtFcn) |-> 1],
         left_matrix |-> crank_nicolson_matrix(NrFcn, "left", 0),
         right_matrix |-> crank_nicolson_matrix(NrFcn, "right", 0),
         mm |-> 1, nn |-> 1, solve_calls |-> 0, cheap_calls |-> <<>>,
         pc |-> IF limitin >= 1 THEN "solve_density" ELSE "expensive"]

\* solve_step, first call: solve_density
fcn_solve_density ==
    /\ fcn.pc = "solve_density"
    /\ LET out == solve_density(fcn.envelope, fcn.density, fcn.next_density, NtFcn,
                                fcn.dens_op_args, fcn.dt, fcn.dt_2, fcn.dt_6)
       IN  fcn' = [fcn EXCEPT !.next_density = out[1], !.density = out[2],
                              !.solve_calls = @ + 1, !.pc = "solve_dispersion"]
    /\ UNCHANGED <<csum, ram, fss, adi, ion, mat, rout, scn>>

fcn_solve_dispersion ==
    /\ fcn.pc = "solve_dispersion"
    /\ fcn' = [fcn EXCEPT !.b_array = solve_dispersion(fcn.fourier_coeff, fcn.envelope),
                          !.pc = "solve_nonlinear"]
    /\ UNCHANGED <<csum, ram, fss, adi, ion, mat, rout, scn>>

fcn_solve_nonlinear ==
    /\ fcn.pc = "solve_nonlinear"
    /\ fcn' = [fcn EXCEPT !.w_array = solve_nonlinear(fcn.b_array, fcn.next_density, NtFcn,
                                          fcn.field_op_args, fcn.dz, fcn.dz_2, fcn.dz_6),
                          !.pc = "solve_envelope"]
    /\ UNCHANGED <<csum, ram, fss, adi, ion, mat, rout, scn>>

\* solve_envelope and the two np.copyto calls that end solve_step
fcn_solve_envelope ==
    /\ fcn.pc = "solve_envelope"
    /\ LET e_n == solve_envelope(fcn.left_matrix, fcn.right_matrix, NtFcn, fcn.b_array, fcn.w_array)
       IN  fcn' = [fcn EXCEPT !.next_envelope = e_n, !.envelope = e_n,
                              !.density = fcn.next_density, !.pc = "cheap"]
    /\ UNCHANGED <<csum, ram, fss, adi, ion, mat, rout, scn>>

\* cheap_diagnostics(kk) and the end of the inner loop body of propagate
fcn_cheap(exits) ==
    /\ fcn.pc = "cheap"
    /\ \E intensity_peak_node \in
              peak_nodes([t \in Idx(NtFcn) |-> Abs(fcn.envelope[axis_node][t])], {PosInf, NaN}),
          density_peak_node \in peak_nodes(fcn.density[axis_node], {NegInf, PosInf, NaN}) :
       LET kk == (fcn.mm - 1) * fcn.dist_limitin + fcn.nn
           axis_envelope_data == fcn.envelope[axis_node]
           axis_density_data == fcn.density[axis_node]
           bad == ~AllFinite(fcn.envelope) \/ ~AllFinite(fcn.density)
       IN  fcn' = [fcn EXCEPT !.axis_envelope[kk] = axis_envelope_data,
                              !.axis_density[kk] = axis_density_data,
                              !.peak_envelope[kk] = Col(fcn.envelope, intensity_peak_node),
                              !.peak_density[kk] = Col(fcn.density, density_peak_node),
                              !.cheap_calls = Append(@, kk),
                              !.nn = IF bad /\ exits THEN @
                                     ELSE IF @ = fcn.dist_limitin THEN 1 ELSE @ + 1,
                              !.pc = IF bad /\ exits THEN "exited"
                                     ELSE IF fcn.nn = fcn.dist_limitin THEN "expensive"
                                     ELSE "solve_density"]
    /\ UNCHANGED <<csum, ram, fss, adi, ion, mat, rout, scn>>

\* a cheap_diagnostics that reports the non-finite value and goes on
fcn_cheap_diagnostics_goes_on == fcn_cheap(FALSE)

fcn_cheap_diagnostics == fcn_cheap(TRUE)

\* expensive_diagnostics(mm) and the end of the outer loop body of propagate
fcn_expensive_diagnostics ==
    /\ fcn.pc = "expensive"
    /\ fcn' = [fcn EXCEPT !.dist_envelope[fcn.mm] = fcn.envelope,
                          !.dist_density[fcn.mm] = fcn.density,
                          !.k_array[fcn.mm] = Add(fcn.k_array[fcn.mm - 1], fcn.dist_limitin),
                          !.mm = @ + 1,
                          !.pc = IF fcn.mm = fcn.dist_limit THEN "done"
                                 ELSE IF fcn.dist_limitin >= 1 THEN "solve_density"
                                 ELSE "expensive"]
    /\ UNCHANGED <<csum, ram, fss, adi, ion, mat, rout, scn>>

FcnIdle == [pc |-> "idle"]

(***************************************************************************)
(* SolverFSS (fss.py).  The time axis has two nodes, for which the        *)
(* discrete Fourier transform is exact in integers.  The routines that    *)
(* solve_step imports (intensity, ionization, density, nonlinear term,    *)
(* the transforms) and the allocations of SolverBase follow the design    *)
(* document.                                                               *)
(***************************************************************************)
NrFss == 3

NtFss == 2

MaxStepsFss == 2

\* the rows [:-1] of an array, and an array with those rows replaced
Inner(a) == [r \in Idx(NrFss - 1) |-> a[r]]

WithInner(a, in) == [r \in DOMAIN a |-> IF r \in DOMAIN in THEN in[r] ELSE a[r]]

\* compute_ifft along the time axis, in units of 1 / 2
compute_ifft(x) == [r \in DOMAIN x |-> [t \in Idx(NtFss) |->
                        IF t = 0 THEN Add(x[r][0], x[r][1]) ELSE Sub(x[r][0], x[r][1])]]

\* compute_fft along the time axis, of a spectrum given in units of 1 / 2
compute_fft(y) == [r \in DOMAIN y |-> [t \in Idx(NtFss) |->
                       LET v == IF t = 0 THEN Add(y[r][0], y[r][1]) ELSE Sub(y[r][0], y[r][1])
                       IN  IF v = NonFinite THEN NonFinite ELSE v \div 2]]

\* disp_exp * spectrum
phase_mul(disp_exp, y) == [r \in DOMAIN y |-> [t \in Idx(NtFss) |-> Mul(disp_exp[t], y[r][t])]]

\* compute_intensity: |E|^2
compute_intensity(env) == [r \in DOMAIN env |-> [t \in DOMAIN env[r] |-> Pow(Abs(env[r][t]), 2)]]

\* compute_ionization, multiphoton model: mpi_c * I^K
compute_ionization(int, n_k, mpi_c) ==
    [r \in DOMAIN int |-> [t \in DOMAIN int[r] |-> Mul(mpi_c, Pow(int[r][t], n_k))]]

\* compute_density_rk4: N(t_min) = density_ini, then RK4 steps of
\* dN/dt = W (N_n - N) + avalanche_c N I along the time axis
RECURSIVE density_rk4_col(_, _, _, _)
density_rk4_col(t, int, rate, c) ==
    IF t = 0 THEN VConst(Col(int, 0), c.density_ini)
    ELSE LET n == density_rk4_col(t - 1, int, rate, c)
             i == Col(int, t - 1)
             w == Col(rate, t - 1)
             op(x) == VAdd(VMul(w, VSub(VConst(x, c.density_n), x)),
                           VMul(VScale(c.avalanche_c, x), i))
             k1 == op(n)
             k2 == op(VAdd(n, VScale(c.dt \div 2, k1)))
             k3 == op(VAdd(n, VScale(c.dt \div 2, k2)))
             k4 == op(VAdd(n, VScale(c.dt, k3)))
         IN  VAdd(n, VDiv(VScale(c.dt, VAdd(VAdd(k1, VScale(2, k2)), VAdd(VScale(2, k3), k4))), 6))

compute_density_rk4(int, rate, c) ==
    [r \in DOMAIN int |-> [t \in Idx(NtFss) |-> density_rk4_col(t, int, rate, c)[r]]]

\* compute_raman_rk4: the arrays compute_raman leaves when its loop runs in order
compute_raman_rk4(int, c) ==
    LET col(t) == SeqRaman(t, int, c.raman_c1, c.raman_c2, c.dt)
    IN  <<[r \in DOMAIN int |-> [t \in Idx(NtFss) |-> col(t)[1][r]]],
          [r \in DOMAIN int |-> [t \in Idx(NtFss) |-> col(t)[2][r]]]>>

\* compute_nonlinear_rk4: one RK4 step over z_res of
\* E (plasma_c N + mpa_c |E|^(2K-2) + kerr_c |E|^2) + raman_c R E
compute_nonlinear_rk4(env, dens, raman, c) ==
    LET op(e, t) ==
            LET e2 == [r \in DOMAIN e |-> Pow(Abs(e[r]), 2)]
                e2k == [r \in DOMAIN e |-> Pow(e2[r], c.n_k - 1)]
            IN  VAdd(VMul(e, VAdd(VAdd(VScale(c.plasma_c, Col(dens, t)), VScale(c.mpa_c, e2k)),
                                  VScale(c.kerr_c, e2))),
                     VMul(VScale(c.raman_c, Col(raman, t)), e))
        col(t) ==
            LET e == Col(env, t)
                k1 == op(e, t)
                k2 == op(VAdd(e, VScale(c.z_res \div 2, k1)), t)
                k3 == op(VAdd(e, VScale(c.z_res \div 2, k2)), t)
                k4 == op(VAdd(e, VScale(c.z_res, k3)), t)
            IN  VDiv(VScale(c.z_res, VAdd(VAdd(k1, VScale(2, k2)), VAdd(VScale(2, k3), k4))), 6)
    IN  [r \in DOMAIN env |-> [t \in Idx(NtFss) |-> col(t)[r]]]

\* compute_matrix(n_r, m_p, coef_d) as a matrix of numbers: the matrix the banded
\* array stands for ("left"), the matrix of the DIA array ("right")
compute_matrix(n_r, m_p, coef_d) ==
    LET d == cn_diagonals(n_r, m_p, coef_d)
        a == IF m_p = "left" THEN banded_dense(band_matrix(d, n_r), n_r)
             ELSE diags_array(d, n_r)
    IN  [i \in Idx(n_r) |-> [j \in Idx(n_r) |-> RatFloor(a[i][j])]]

\* matrix_right @ x in the DIA format: every entry of the three stored diagonals
\* is multiplied, the zero ones too
DiaMatVec(m, x) ==
    [i \in DOMAIN m |->
        LET term(j) == IF j \in DOMAIN m THEN Mul(m[i][j], x[j]) ELSE 0
        IN  Add(Add(term(i - 1), term(i)), term(i + 1))]

\* solve_banded((1, 1), matrix_left, rhs) for the array rhs of all time columns.
\* check_finite is left at its default: a nan or an inf in rhs raises ValueError
\* before anything is solved.  Otherwise x is the array with matrix_left x = rhs;
\* the model runs without diffraction, where matrix_left is the identity.
solve_banded(lm, rhs) ==
    IF ~AllFinite(rhs) THEN [error |-> "ValueError", x |-> <<>>]
    ELSE [error |-> "none",
          x |-> CHOOSE x \in {rhs} : \A i \in DOMAIN lm :
                    \A j \in DOMAIN lm : lm[i][j] = IF i = j THEN 1 ELSE 0]

\* the initial pulse
FssEnvelopes ==
    {[r \in Idx(NrFss) |-> [t \in Idx(NtFss) |-> IF r = 0 /\ t = 0 THEN 2 * amp ELSE amp]] :
        amp \in {1}}

FssGarbage == {0, 7, NonFinite}

FssPhases == {[t \in Idx(NtFss) |-> IF t = 0 THEN 1 ELSE d] : d \in {1, -1}}

\* SolverFSS.__init__ : the arrays of SolverBase, envelope_split_rt, set_operators
SolverFSS(method_nl, use_raman, g, env, disp_exp, mpi_c) ==
    LET alloc == Full(NrFss, NtFss, g)
    IN  [method_d |-> "RK4", method_r |-> "RK4", method_nl |-> method_nl,
         use_raman |-> use_raman,
         coef |-> [n_k |-> 1, mpi_c |-> mpi_c, density_n |-> 1, density_ini |-> 0,
                   avalanche_c |-> 0, raman_c1 |-> 1, raman_c2 |-> 0, plasma_c |-> 1,
                   mpa_c |-> 0, kerr_c |-> 0, raman_c |-> 1,
                   dt |-> StepLen, z_res |-> StepLen],
         envelope_rt |-> env, envelope_next_rt |-> alloc, envelope_split_rt |-> alloc,
         nonlinear_rt |-> alloc, density_rt |-> alloc, raman_rt |-> alloc,
         draman_rt |-> alloc, intensity_rt |-> alloc, ionization_rate |-> alloc,
         disp_exp |-> disp_exp,
         matrix_left |-> compute_matrix(NrFss, "left", 0),
         matrix_right |-> compute_matrix(NrFss, "right", 0),
         step |-> 0, trace |-> <<>>, nl_step |-> 0, before |-> <<>>, raman_calls |-> 0,
         split_rows |-> {}, nl_rows |-> {},
         pc |-> "ionization"]

\* solve_step: compute_intensity and compute_ionization
fss_ionization ==
    /\ fss.pc = "ionization"
    /\ fss.step < MaxStepsFss
    /\ LET int == compute_intensity(Inner(fss.envelope_rt))
       IN  fss' = [fss EXCEPT !.intensity_rt = WithInner(@, int),
                              !.ionization_rate =
                                  WithInner(@, compute_ionization(int, fss.coef.n_k, fss.coef.mpi_c)),
                              !.step = @ + 1, !.trace = <<"ionization">>,
                              !.pc = "density"]
    /\ UNCHANGED <<csum, ram, fcn, adi, ion, mat, rout, scn>>

\* solve_step: the density advance
fss_density ==
    /\ fss.pc = "density"
    /\ fss' = [fss EXCEPT !.density_rt =
                              WithInner(@, compute_density_rk4(Inner(fss.intensity_rt),
                                               Inner(fss.ionization_rate), fss.coef)),
                          !.trace = Append(@, "density"), !.pc = "raman"]
    /\ UNCHANGED <<csum, ram, fcn, adi, ion, mat, rout, scn>>

\* a disabled Raman branch that leaves raman_rt as it is
raman_disabled_keep(raman_rt) == raman_rt

\* else: self.raman_rt.fill(0.0)
raman_disabled(raman_rt) == [r \in DOMAIN raman_rt |-> [t \in DOMAIN raman_rt[r] |-> 0]]

\* solve_step: the Raman advance, or raman_rt.fill(0.0); raman_calls counts the
\* invocations of a Raman integrator
fss_raman ==
    /\ fss.pc = "raman"
    /\ LET out == compute_raman_rk4(Inner(fss.intensity_rt), fss.coef)
       IN  fss' = [fss EXCEPT !.raman_rt = IF fss.use_raman THEN WithInner(@, out[1])
                                           ELSE raman_disabled(@),
                              !.draman_rt = IF fss.use_raman THEN WithInner(@, out[2]) ELSE @,
                              !.raman_calls = IF fss.use_raman THEN @ + 1 ELSE @,
                              !.trace = Append(@, "raman"), !.pc = "dispersion"]
    /\ UNCHANGED <<csum, ram, fcn, adi, ion, mat, rout, scn>>

\* if self.method_nl == "RK4": compute_nonlinear_rk4(...)
after_dispersion(method_nl) == IF method_nl = "RK4" THEN "nonlinear" ELSE "envelope"

\* solve_step: compute_dispersion
fss_dispersion ==
    /\ fss.pc = "dispersion"
    /\ fss' = [fss EXCEPT !.envelope_split_rt =
                              WithInner(@, compute_fft(phase_mul(fss.disp_exp,
                                               compute_ifft(Inner(fss.envelope_rt))))),
                          !.split_rows = @ \cup Idx(NrFss - 1),
                          !.trace = Append(@, "dispersion"),
                          !.pc = after_dispersion(fss.method_nl)]
    /\ UNCHANGED <<csum, ram, fcn, adi, ion, mat, rout, scn>>

\* solve_step: compute_nonlinear_rk4
fss_nonlinear ==
    /\ fss.pc = "nonlinear"
    /\ fss' = [fss EXCEPT !.nonlinear_rt =
                              WithInner(@, compute_nonlinear_rk4(Inner(fss.envelope_split_rt),
                                               Inner(fss.density_rt), Inner(fss.raman_rt),
                                               fss.coef)),
                          !.nl_step = fss.step,
                          !.nl_rows = @ \cup Idx(NrFss - 1),
                          !.trace = Append(@, "nonlinear"), !.pc = "envelope"]
    /\ UNCHANGED <<csum, ram, fcn, adi, ion, mat, rout, scn>>

\* a banded solve that leaves its factorization in the array of the operator
banded_after_solve_overwritten(ab) == [i \in DOMAIN ab |-> [j \in DOMAIN ab[i] |-> 0]]

\* self.matrix_left after solve_banded((1, 1), self.matrix_left, rhs): overwrite_ab
\* is not set, the array is left as it was
banded_after_solve(ab) == ab

\* compute_envelope: what solve_banded gives for rhs = matrix_right @ envelope_split_rt
\* + nonlinear_rt; its x is assigned to envelope_next_rt[:] when it does not raise
compute_envelope(matrix_right, matrix_left, envelope_split_rt, nonlinear_rt) ==
    LET rhs_linear == [t \in Idx(NtFss) |-> DiaMatVec(matrix_right, Col(envelope_split_rt, t))]
        rhs == [r \in Idx(NrFss) |-> [t \in Idx(NtFss) |->
                   Add(rhs_linear[t][r], nonlinear_rt[r][t])]]
    IN  solve_banded(matrix_left, rhs)

\* solve_step: compute_envelope.  A ValueError of solve_banded ends solve_step:
\* envelope_next_rt is not assigned and the commit is not reached.
fss_envelope ==
    /\ fss.pc = "envelope"
    /\ \E out \in {compute_envelope(fss.matrix_right, fss.matrix_left,
                                    fss.envelope_split_rt, fss.nonlinear_rt)} :
           fss' = [fss EXCEPT !.envelope_next_rt = IF out.error = "none" THEN out.x ELSE @,
                              !.matrix_left = banded_after_solve(@),
                              !.trace = Append(@, "envelope"),
                              !.pc = IF out.error = "none" THEN "commit" ELSE "raised"]
    /\ UNCHANGED <<csum, ram, fcn, adi, ion, mat, rout, scn>>

\* self.envelope_rt[:], self.envelope_next_rt[:] = (self.envelope_next_rt, self.envelope_rt):
\* the right side is a pair of references; the first copy fills envelope_rt, the
\* second copies envelope_rt, as it is by then, into envelope_next_rt
commit(cur, nxt) ==
    LET cur1 == nxt
        nxt1 == cur1
    IN  <<cur1, nxt1>>

\* solve_step: the buffer commit
fss_commit ==
    /\ fss.pc = "commit"
    /\ LET out == commit(fss.envelope_rt, fss.envelope_next_rt)
       IN  fss' = [fss EXCEPT !.envelope_rt = out[1], !.envelope_next_rt = out[2],
                              !.before = <<fss.envelope_rt, fss.envelope_next_rt>>,
                              !.trace = Append(@, "commit"), !.pc = "ionization"]
    /\ UNCHANGED <<csum, ram, fcn, adi, ion, mat, rout, scn>>

FssIdle == [pc |-> "idle"]

(***************************************************************************)
(* The ADI script (ffdmk_2d1_adi2.py): the propagation loop.  The names   *)
(* envelope and envelope_store are references to array objects; obj holds *)
(* the contents of the objects.  The model runs without diffraction and   *)
(* dispersion (DELTA_R = DELTA_T = 0) and with one photon.                 *)
(***************************************************************************)
NrAdi == 3

NtAdi == 3

MaxStepsAdi == 3

\* DIST_STEP_LEN, a multiple of 4 so that 0.25 * (3 w1 - w0) is exact
AdiStepLen == 4 * DtUnits

Transpose(a, m, n) == [t \in Idx(n) |-> [r \in Idx(m) |-> a[r][t]]]

\* the radial matrices after the boundary conditions (EU_CYL = 1), for DELTA_R = 0
adi_matrix_r(pos) ==
    [i \in Idx(NrAdi) |-> [j \in Idx(NrAdi) |->
        IF i # j THEN 0 ELSE IF pos = "left" THEN 1 ELSE IF i = NrAdi - 1 THEN 0 ELSE 1]]

\* the temporal matrices after the boundary conditions, for DELTA_T = 0
adi_matrix_t(pos) ==
    [i \in Idx(NtAdi) |-> [j \in Idx(NtAdi) |->
        IF i # j THEN 0 ELSE IF pos = "left" THEN 1
        ELSE IF i = 0 \/ i = NtAdi - 1 THEN 0 ELSE 1]]

\* the largest |d| of an element whose w the script's steps form in the model
MaxCubeArg == 500

\* DIST_STEP_LEN * (KERR_COEFF * |d|^2 + MPA_COEFF * |d|^MPA_EXPONENT) * d for a finite
\* d, as the double holds it: without rounding, and a multiple of 4
adi_w_at(x, kerr) == AdiStepLen * (kerr * (Abs(x) * Abs(x)) + 0 * 1) * x

adi_w(d, kerr) ==
    [i \in DOMAIN d |-> IF d[i] = NonFinite THEN NonFinite ELSE adi_w_at(d[i], kerr)]

\* b + 0.25 * (3 * w1 - w0) for finite b, w1 and w0
adi_f_at(x, y1, y0) == x + (3 * y1 - y0) \div 4

\* b + 0.25 * (3 * w1 - w0), elementwise
adi_f(b, w1, w0) ==
    [i \in DOMAIN b |->
        IF b[i] = NonFinite \/ w1[i] = NonFinite \/ w0[i] = NonFinite THEN NonFinite
        ELSE adi_f_at(b[i], w1[i], w0[i])]

\* the arrays of the model hold values up to MaxAbs: a half-step is taken when every
\* finite element d has |d| <= MaxCubeArg, and every w and f it stores is in the range
adi_w_formed(d) == \A i \in DOMAIN d : d[i] = NonFinite \/ Abs(d[i]) <= MaxCubeArg

adi_w_held(d, kerr) ==
    \A i \in DOMAIN d : d[i] = NonFinite \/ Abs(adi_w_at(d[i], kerr)) <= MaxAbs

adi_f_held(b, w1, w0) ==
    \A i \in DOMAIN b :
        b[i] = NonFinite \/ w1[i] = NonFinite \/ w0[i] = NonFinite
        \/ Abs(adi_f_at(b[i], w1[i], w0[i])) <= MaxAbs

AdiEnvelopes ==
    {[r \in Idx(NrAdi) |-> [t \in Idx(NtAdi) |-> IF r = 0 /\ t = NtAdi \div 2 THEN 2 * amp ELSE amp]] :
        amp \in {1, 2}}

AdiGarbage == {0, 7, NonFinite}

\* the script up to the propagation loop
AdiScript(n_steps, kerr, g, env) ==
    LET empty2 == Full(NrAdi, NtAdi, g)
    IN  [N_STEPS |-> n_steps, KERR_COEFF |-> kerr, k |-> 0,
         envelope |-> "gaussian_beam", envelope_store |-> "envelope_store",
         obj |-> [gaussian_beam |-> env, envelope_store |-> empty2],
         b_array |-> empty2, c_array |-> empty2, f_array |-> empty2,
         w_0 |-> empty2, w_1 |-> empty2,
         envelope_axis |-> [z \in 0..n_steps |-> IF z = 0 THEN env[0] ELSE [t \in Idx(NtAdi) |-> g]],
         pc |-> "first_half"]

\* the first half-step of iteration k, up to w_array[:, :, 0] = w_array[:, :, 1]
adi_first_half ==
    /\ adi.pc = "first_half"
    /\ \A i \in Idx(NrAdi) : adi_w_formed(adi.obj[adi.envelope][i])
    /\ \A i \in Idx(NrAdi) : adi_w_held(adi.obj[adi.envelope][i], adi.KERR_COEFF)
    /\ LET env == adi.obj[adi.envelope]
           b == [i \in Idx(NrAdi) |-> MatVec(adi_matrix_t("right"), env[i])]
           w1 == Transpose([l \in Idx(NtAdi) |-> adi_w(Col(env, l), adi.KERR_COEFF)], NtAdi, NrAdi)
           w0 == IF adi.k = 0 THEN w1 ELSE adi.w_0
           f == Transpose([l \in Idx(NtAdi) |-> adi_f(Col(b, l), Col(w1, l), Col(w0, l))], NtAdi, NrAdi)
           c == Transpose([l \in Idx(NtAdi) |-> lu_solve(adi_matrix_r("left"), Col(f, l))], NtAdi, NrAdi)
       IN  /\ \A i \in Idx(NrAdi) : adi_f_held(b[i], w1[i], w0[i])
           /\ adi' = [adi EXCEPT !.b_array = b, !.w_1 = w1, !.w_0 = w1, !.f_array = f,
                                 !.c_array = c,
                                 !.envelope_axis[adi.k + 1] = IF adi.k = 0 THEN env[0] ELSE @,
                                 !.pc = "second_half"]
    /\ UNCHANGED <<csum, ram, fcn, fss, ion, mat, rout, scn>>

\* envelope = envelope_store: the name envelope now refers to the object envelope_store
adi_rebind(envelope_ref, store_ref) == store_ref

\* the second half-step of iteration k and the end of the loop body; at k = 0 the
\* guess w_array[i, :, 0] is overwritten at the end of the body and is not held
adi_second_half ==
    /\ adi.pc = "second_half"
    /\ \A i \in Idx(NrAdi) : adi_w_formed(adi.c_array[i])
    /\ adi.k = 0 \/ \A i \in Idx(NrAdi) : adi_w_held(adi.c_array[i], adi.KERR_COEFF)
    /\ LET c == adi.c_array
           b == Transpose([l \in Idx(NtAdi) |-> MatVec(adi_matrix_r("right"), Col(c, l))], NtAdi, NrAdi)
           w == [i \in Idx(NrAdi) |-> adi_w(c[i], adi.KERR_COEFF)]
           w0 == IF adi.k = 0 THEN w ELSE adi.w_0
           w1 == IF adi.k = 0 THEN adi.w_1 ELSE w
           f == [i \in Idx(NrAdi) |-> adi_f(b[i], w1[i], w0[i])]
           store == [i \in Idx(NrAdi) |-> lu_solve(adi_matrix_t("left"), f[i])]
           to == adi_rebind(adi.envelope, adi.envelope_store)
       IN  /\ \A i \in Idx(NrAdi) : adi_f_held(b[i], w1[i], w0[i])
           /\ adi' = [adi EXCEPT !.b_array = b, !.w_1 = w1, !.w_0 = w1, !.f_array = f,
                                 !.obj = [@ EXCEPT ![adi.envelope_store] = store, ![to] = store],
                                 !.envelope = to,
                                 !.envelope_axis[adi.k + 1] = store[0],
                                 !.k = @ + 1,
                                 !.pc = IF adi.k + 1 = adi.N_STEPS THEN "done" ELSE "first_half"]
    /\ UNCHANGED <<csum, ram, fcn, fss, ion, mat, rout, scn>>

(***************************************************************************)
(* compute_ionization (aiurpy/core/ionization.py), on floats.  The field   *)
(* magnitude and the coefficients coef_ga and coef_f0 are counted in units *)
(* of 1e-12 / FieldUnitsPerFloor, so that the points the loop skips are    *)
(* the ones below FieldUnitsPerFloor; the rates depend on these three only *)
(* through their ratios.  Two calls with the same arguments run on two     *)
(* pairs of pre-allocated arrays, run[1] and run[2].                       *)
(***************************************************************************)
FieldUnitsPerFloor == 2

MaxField == 3

NrIon == 1

NtIon == 2

\* the largest photon number n_k of a call
MaxNk == 2

\* coef_ga, in field units
coef_ga == 12

\* what the pre-allocated arrays of the two calls hold: two different contents
IonGarbage == {<<FZero, FInt(5)>>, <<FInt(5), FNaN>>, <<FNaN, FZero>>}

\* env_mod[i, j] < 1e-12
low_field(env_mod) == FLess(env_mod, FInt(FieldUnitsPerFloor))

\* gamma_ppt = coef_ga / env_mod; the division by a zero field gives inf
keldysh_gamma(env_mod) == FDiv(FInt(coef_ga), env_mod)

\* np.sqrt(1 + gamma**2)
gamma_root(gamma) == FSqrt(FAdd(FOne, FMul(gamma, gamma)))

\* np.arcsinh(gamma)
compute_asinh_gamma(gamma) == FAsinh(gamma)

\* 2 * gamma / np.sqrt(1 + gamma**2); inf / inf is nan
compute_b_gamma(gamma) == FDiv(FMul(FTwo, gamma), gamma_root(gamma))

\* 1 + 0.5 / gamma**2; 0.5 / inf is 0 and 0.5 / 0 is inf
compute_idx_gamma(gamma) == FAdd(FOne, FDiv(FHalf, FMul(gamma, gamma)))

\* 2 * asinh - beta; for gamma well below 1 the two terms nearly cancel
compute_a_gamma(asinh, beta) == FSub(FMul(FTwo, asinh), beta)

\* (1.5 / gamma) * (idx * asinh - 1 / beta); for gamma well below 1 the two terms
\* nearly cancel
compute_g_gamma(gamma, asinh, idx, beta) ==
    FMul(FDiv(FAdd(FOne, FHalf), gamma), FSub(FMul(idx, asinh), FDiv(FOne, beta)))

\* the end of a pass: the convergence break, which leaves idx as it is, else
\* idx += 1 and the break at the cap
sum_pass_end(tol, idx_min, idx, sum_term, sum_value) ==
    IF converged(sum_term, tol, sum_value) THEN <<idx, sum_value, TRUE>>
    ELSE <<idx + 1, sum_value, cap_reached(idx + 1, idx_min)>>

\* sum_value += sum_term, unless the term has raised
sum_pass_add(tol, idx_min, at, sum_term) ==
    IF sum_term = OverflowError THEN <<at[1], OverflowError, TRUE>>
    ELSE sum_pass_end(tol, idx_min, at[1], sum_term, FAdd(at[2], sum_term))

\* one pass of the while loop on <<idx, sum_value, left>>, left being true once the
\* loop has met a break or an exception, which then stands for sum_value
sum_pass(alpha_s, beta_s, nu_thr, tol, idx_min, at) ==
    IF at[3] THEN at
    ELSE sum_pass_add(tol, idx_min, at, series_term(alpha_s, beta_s, at[1], nu_thr))

\* n passes of the while loop, the first half of them and then, unless the loop
\* has left, the rest
RECURSIVE sum_passes(_, _, _, _, _, _, _)
sum_passes(alpha_s, beta_s, nu_thr, tol, idx_min, at, n) ==
    LET rest(mid) == IF mid[3] THEN mid
                     ELSE sum_passes(alpha_s, beta_s, nu_thr, tol, idx_min, mid, n - n \div 2)
    IN  IF n <= 1 THEN sum_pass(alpha_s, beta_s, nu_thr, tol, idx_min, at)
        ELSE rest(sum_passes(alpha_s, beta_s, nu_thr, tol, idx_min, at, n \div 2))

\* the while loop of compute_sum from idx on, and its return value: the loop leaves
\* at the latest after the pass of idx = idx_min + max_idx
sum_loop(alpha_s, beta_s, nu_thr, tol, idx_min, idx, sum_value) ==
    sum_passes(alpha_s, beta_s, nu_thr, tol, idx_min, <<idx, sum_value, FALSE>>,
               idx_min + max_idx + 1 - idx)[2]

\* idx_min = int(np.ceil(nu_thr)), which raises ValueError for a nan and OverflowError
\* for an infinite nu_thr, and the loop from idx_min and sum_value = 0.0
compute_sum_from(alpha_s, beta_s, nu_thr, tol) ==
    IF nu_thr = FNaN THEN ValueError
    ELSE IF FIsInf(nu_thr) THEN OverflowError
    ELSE sum_loop(alpha_s, beta_s, nu_thr, tol, FCeil(nu_thr), FCeil(nu_thr), FZero)

\* compute_sum(alpha_s, beta_s, idx_ppt_s, coef_nu, tol): the return value, or the
\* exception the call ends in
compute_sum(alpha_s, beta_s, idx_ppt_s, coef_nu, tol) ==
    compute_sum_from(alpha_s, beta_s, FMul(coef_nu, idx_ppt_s), tol)

\* np.abs(env), for the field magnitudes of the calls
field_modulus(env) ==
    [i \in DOMAIN env |-> [j \in DOMAIN env[i] |-> FInt(Abs(env[i][j]))]]

\* a rate that grows with the n_k-th power of the field magnitude
ionization_mpi_half_power(env_mod, n_k, coef_ofi) ==
    [i \in DOMAIN env_mod |-> [j \in DOMAIN env_mod[i] |->
        FMul(coef_ofi, FPowInt(env_mod[i][j], n_k))]]

\* ion_rate[:] = coef_ofi * env_mod ** (2 * n_k)
ionization_mpi(env_mod, n_k, coef_ofi) ==
    [i \in DOMAIN env_mod |-> [j \in DOMAIN env_mod[i] |->
        FMul(coef_ofi, FPowInt(env_mod[i][j], 2 * n_k))]]

\* the third argument of the call of compute_sum at a point: gamma_ij = gamma_ppt[i, j]
ionization_sum_argument(env_mod_ij) == keldysh_gamma(env_mod_ij)

\* the third arguments of the calls of compute_sum; "none" where the call is skipped
ionization_ppt_arguments(env_mod) ==
    [i \in DOMAIN env_mod |-> [j \in DOMAIN env_mod[i] |->
        IF low_field(env_mod[i][j]) THEN "none"
        ELSE ionization_sum_argument(env_mod[i][j])]]

\* compute_sum(alpha_ij, beta_ij, gamma_ij, coef_nu, tol) at one point
ppt_sum_call(env_mod_ij, gamma_ij, beta_ij, coef_nu, tol) ==
    compute_sum(compute_a_gamma(compute_asinh_gamma(gamma_ij), beta_ij), beta_ij,
                ionization_sum_argument(env_mod_ij), coef_nu, tol)

ppt_sum_at(env_mod_ij, gamma_ij, coef_nu, tol) ==
    ppt_sum_call(env_mod_ij, gamma_ij, compute_b_gamma(gamma_ij), coef_nu, tol)

\* the double loop of the ppt branch: ion_sum[i, j] = compute_sum(alpha_ij, beta_ij,
\* gamma_ij, coef_nu, tol) at every point that is not skipped
ionization_ppt_sum(env_mod, ion_sum, coef_nu, tol) ==
    [i \in DOMAIN env_mod |-> [j \in DOMAIN env_mod[i] |->
        IF low_field(env_mod[i][j]) THEN ion_sum[i][j]
        ELSE ppt_sum_at(env_mod[i][j], keldysh_gamma(env_mod[i][j]), coef_nu, tol)]]

\* gfunc_ppt = compute_g_gamma(gamma_ppt, asinh_ppt, idx_ppt, beta_ppt)
gfunc_ppt(gamma, beta) ==
    compute_g_gamma(gamma, compute_asinh_gamma(gamma), compute_idx_gamma(gamma), beta)

\* ns_term = (2 * coef_f0 / (env_mod * np.sqrt(1 + gamma_ppt**2))) ** (2 * coef_ns - 1.5)
ns_term(env_mod_ij, gamma, coef_f0, coef_ns) ==
    FPow(FDiv(FMul(FTwo, coef_f0), FMul(env_mod_ij, gamma_root(gamma))),
         FSub(FMul(FTwo, coef_ns), FAdd(FOne, FHalf)))

\* g_term = np.exp(-2 * coef_f0 * gfunc / (3 * env_mod))
g_term(env_mod_ij, gamma, beta, coef_f0) ==
    FExp(FDiv(FMul(FMul(FInt(-2), coef_f0), gfunc_ppt(gamma, beta)), FMul(FInt(3), env_mod_ij)))

\* g_term_2 = (0.5 * beta_ppt) ** 2
g_term_2(half_beta) == FMul(half_beta, half_beta)

\* the rate at one point
ppt_rate(env_mod_ij, ion_sum_ij, gamma, beta, coef_ion, coef_f0, coef_ns) ==
    FMul(FMul(FMul(FMul(coef_ion, ns_term(env_mod_ij, gamma, coef_f0, coef_ns)),
                   g_term(env_mod_ij, gamma, beta, coef_f0)),
              g_term_2(FMul(FHalf, beta))), ion_sum_ij)

ppt_rate_at(env_mod_ij, ion_sum_ij, gamma, coef_ion, coef_f0, coef_ns) ==
    ppt_rate(env_mod_ij, ion_sum_ij, gamma, compute_b_gamma(gamma), coef_ion, coef_f0, coef_ns)

\* ion_rate[:] = coef_ion * ns_term * g_term * g_term_2 * ion_sum, at every point,
\* the skipped ones included
ionization_ppt_rate(env_mod, ion_sum, coef_ion, coef_f0, coef_ns) ==
    [i \in DOMAIN env_mod |-> [j \in DOMAIN env_mod[i] |->
        ppt_rate_at(env_mod[i][j], ion_sum[i][j], keldysh_gamma(env_mod[i][j]),
                    coef_ion, coef_f0, coef_ns)]]

\* a dispatch that treats every unrecognized model as "mpi"
ionization_branch_default(ion_model) == IF ion_model = "ppt" THEN "ppt" ELSE "mpi"

\* if ion_model == "mpi" ... elif ion_model == "ppt" ... else: raise ValueError
ionization_branch(ion_model) ==
    IF ion_model = "mpi" THEN "mpi" ELSE IF ion_model = "ppt" THEN "ppt" ELSE "raise"

IonFields == {[i \in Idx(NrIon) |-> [j \in Idx(NtIon) |-> IF j = 0 THEN a ELSE b]] :
                 a \in 0..MaxField, b \in 0..MaxField}

\* the pairs (coef_f0, coef_ns) of the calls: coef_f0 = 0 with 2 coef_ns = 1.5, where
\* ns_term = g_term = 1 at every point of non-zero field, and coef_f0 = 1e-12 with
\* coef_ns = 1
IonAtoms ==
    {<<FZero, FDiv(FInt(3), FInt(4))>>, <<FInt(FieldUnitsPerFloor), FOne>>}

\* the arguments of the two calls, with coef_nu = 0.5 and the default tol = 1e-2;
\* rate0 and sum0 keep what the arrays held at the call
IonCalls(ion_model, env, n_k, coef, atom, g1, g2) ==
    LET arrays(g) == [pc |-> "call",
                      ion_rate |-> Full(NrIon, NtIon, g), ion_sum |-> Full(NrIon, NtIon, g),
                      rate0 |-> Full(NrIon, NtIon, g), sum0 |-> Full(NrIon, NtIon, g),
                      sum_args |-> Full(NrIon, NtIon, "none")]
    IN  [pc |-> "calls", ion_model |-> ion_model, env |-> env, n_k |-> n_k,
         coef_ofi |-> FInt(coef), coef_ion |-> FInt(coef), coef_f0 |-> atom[1],
         coef_ns |-> atom[2], coef_nu |-> FHalf, tol |-> tol_of(1),
         run |-> [k \in {1, 2} |-> IF k = 1 THEN arrays(g1) ELSE arrays(g2)]]

\* one call of compute_ionization, on the arrays of run k; the second call is made
\* when the first one is over
compute_ionization_call(k) ==
    /\ ion.pc = "calls"
    /\ ion.run[k].pc = "call"
    /\ k = 2 => ion.run[1].pc # "call"
    /\ \E env_mod \in {field_modulus(ion.env)}, branch \in {ionization_branch(ion.ion_model)} :
       \E ion_sum \in {IF branch = "ppt"
                       THEN ionization_ppt_sum(env_mod, ion.run[k].ion_sum, ion.coef_nu, ion.tol)
                       ELSE ion.run[k].ion_sum} :
       \E ion_rate \in {IF branch = "mpi" THEN ionization_mpi(env_mod, ion.n_k, ion.coef_ofi)
                        ELSE IF branch = "ppt"
                             THEN ionization_ppt_rate(env_mod, ion_sum, ion.coef_ion,
                                                      ion.coef_f0, ion.coef_ns)
                             ELSE ion.run[k].ion_rate} :
           ion' = [ion EXCEPT !.run[k].pc = IF branch = "raise" THEN "raised" ELSE "returned",
                              !.run[k].ion_rate = ion_rate,
                              !.run[k].ion_sum = ion_sum,
                              !.run[k].sum_args = IF branch = "ppt"
                                                  THEN ionization_ppt_arguments(env_mod)
                                                  ELSE @]
    /\ UNCHANGED <<csum, ram, fcn, fss, adi, mat, rout, scn>>

IonIdle == [pc |-> "idle"]

MatIdle == [pc |-> "idle"]

AdiIdle == [pc |-> "idle"]

RoutIdle == [pc |-> "idle"]

ScnIdle == [pc |-> "idle"]

(***************************************************************************)
(* The spectral CN-AB2 script (ffdmk_2d1_scn_old.py): the propagation      *)
(* loop.  The script's names and the entries of the dictionary vectors     *)
(* are references to array objects; obj holds the contents of the objects. *)
(* The elements are complex values <<re, im>> of two floats.  The time     *)
(* axis has two nodes, for which the discrete Fourier transform is a sum   *)
(* and a difference.  The model runs without diffraction and dispersion    *)
(* (DELTA_R = DELTA_T = 0), with one photon (MPA_EXP = 0) and without      *)
(* absorption (MPA_COEF = 0).                                              *)
(***************************************************************************)
NrScn == 2

NtScn == 2

MaxStepsScn == 3

\* DIST_LIMIT, for runs of a few steps
ScnDistLimit == 1

\* the complex value of a float
CReal(x) == <<x, FZero>>

\* the sum, the difference and the product of two complex values, part by part as
\* numpy computes them: a non-finite part of a factor makes 0 * inf = nan
CAdd(a, b) == <<FAdd(a[1], b[1]), FAdd(a[2], b[2])>>

CSub(a, b) == <<FSub(a[1], b[1]), FSub(a[2], b[2])>>

CMul(a, b) ==
    <<FSub(FMul(a[1], b[1]), FMul(a[2], b[2])), FAdd(FMul(a[1], b[2]), FMul(a[2], b[1]))>>

\* hypot(x, y) for finite x, y > 0; the squares of parts of a large or a small
\* exponent are not formed
hypot_scaled(big, r) == FMul(big, FSqrt(FAdd(FOne, FMul(r, r))))

hypot_plain(x) == -400 < x[2] /\ x[2] < 400

hypot(x, y) ==
    IF hypot_plain(x) /\ hypot_plain(y) THEN FSqrt(FAdd(FMul(x, x), FMul(y, y)))
    ELSE IF FLess(x, y) THEN hypot_scaled(y, FDiv(x, y))
    ELSE hypot_scaled(x, FDiv(y, x))

\* np.abs of a complex value, the hypot of its parts: inf if a part is infinite, and
\* else nan if a part is nan
CAbs(a) ==
    IF FIsInf(a[1]) \/ FIsInf(a[2]) THEN FInf
    ELSE IF a[1] = FNaN \/ a[2] = FNaN THEN FNaN
    ELSE IF a[2][1] = 0 THEN FAbs(a[1])
    ELSE IF a[1][1] = 0 THEN FAbs(a[2])
    ELSE hypot(FAbs(a[1]), FAbs(a[2]))

\* fft(a, axis=1)
fft(a) == [r \in DOMAIN a |-> [t \in Idx(NtScn) |->
              IF t = 0 THEN CAdd(a[r][0], a[r][1]) ELSE CSub(a[r][0], a[r][1])]]

\* ifft(a, axis=1): the sum and the difference, both parts over the number of nodes
ifft(a) == [r \in DOMAIN a |-> [t \in Idx(NtScn) |->
               LET over(z) == <<FDiv(z[1], FInt(NtScn)), FDiv(z[2], FInt(NtScn))>>
               IN  over(IF t = 0 THEN CAdd(a[r][0], a[r][1]) ELSE CSub(a[r][0], a[r][1]))]]

\* nonlinear_terms: the three planes of b, the real powers of abs_e_c = np.abs(e_c)
\* stored as complex values; MPA_EXP is 0 for one photon
nonlinear_terms(e_c) ==
    [p \in 0..2 |-> [r \in DOMAIN e_c |-> [t \in DOMAIN e_c[r] |->
        IF p = 0 THEN e_c[r][t]
        ELSE IF p = 1 THEN CReal(FPowInt(CAbs(e_c[r][t]), 2))
        ELSE CReal(FPowInt(CAbs(e_c[r][t]), 0))]]]

\* adam_bashforth_step: (KERR_COEF * b[:, :, 1] + MPA_COEF * b[:, :, 2]) * b[:, :, 0]
\* for a complex KERR_COEF and the float MPA_COEF = 0, which the product with a
\* complex array takes as 0 + 0j
adam_bashforth_step(b, kerr) ==
    [r \in DOMAIN b[0] |-> [t \in DOMAIN b[0][r] |->
        CMul(CAdd(CMul(kerr, b[1][r][t]), CMul(CReal(FZero), b[2][r][t])), b[0][r][t])]]

\* fft_algorithm(e_c, fe_c, w_c, w_n, b) on references: b is rebound to the
\* transforms, which are then copied into w_c and into w_n, in this order
fft_algorithm(obj, e_c, fe_c, w_c, w_n) ==
    LET h1 == [obj EXCEPT ![fe_c] = fft(obj[e_c])]
        h2 == [h1 EXCEPT ![w_c] = fft(h1[w_c])]
    IN  [h2 EXCEPT ![w_n] = fft(h2[w_n])]

\* mats["rm"] after setdiag(1 + 0j) and data[-1] = 0, applied to a column: every
\* row is the product of its diagonal entry and the element
scn_right(x) ==
    [i \in DOMAIN x |-> CMul(CReal(IF i = NrScn - 1 THEN FZero ELSE FOne), x[i])]

\* spsolve(mats["lm"], d) for the diagonal mats["lm"] of entries 1 + 0j: every
\* element of d over its diagonal entry, (d.r + d.i * 0) + (d.i - d.r * 0) j
scn_left(d) ==
    [i \in DOMAIN d |-> <<FAdd(d[i][1], FMul(d[i][2], FZero)),
                           FSub(d[i][2], FMul(d[i][1], FZero))>>]

\* crank_nicolson_step: arr["fe_n"][:, l] for every frequency l, from
\* arr["d"] = arr["c"] + 1.5 * arr["w_c"][:, l] - 0.5 * arr["w_n"][:, l];
\* the floats 1.5 and 0.5 enter the products as 1.5 + 0j and 0.5 + 0j
crank_nicolson_step(fe_c, w_c, w_n) ==
    LET d(l) == LET c == scn_right(Col(fe_c, l))
                IN  [r \in Idx(NrScn) |->
                        CSub(CAdd(c[r], CMul(CReal(FDiv(FInt(3), FTwo)), w_c[r][l])),
                             CMul(CReal(FHalf), w_n[r][l]))]
        fe_n == [l \in Idx(NtScn) |-> scn_left(d(l))]
    IN  [r \in Idx(NrScn) |-> [l \in Idx(NtScn) |-> fe_n[l][r]]]

\* initial_condition: a complex pulse that is highest on the axis at the peak time
ScnEnvelopes ==
    {[r \in Idx(NrScn) |-> [t \in Idx(NtScn) |->
         IF r = 0 /\ t = NtScn \div 2 THEN <<FInt(6 * amp), FInt(8 * amp)>>
         ELSE <<FInt(3 * amp), FInt(4 * amp)>>]] : amp \in {1, 2}}

\* what np.empty and np.empty_like may hand out for a complex array
ScnGarbage == {CReal(FZero), <<FInt(6), FInt(-2)>>, <<FNaN, FNaN>>}

\* what np.empty(DIST_LIMIT + 1, dtype=int) may hand out
ScnIntGarbage == {0, 6}

\* the script up to the propagation loop
ScnScript(n_steps, kerr, g, gk, env) ==
    LET empty2 == Full(NrScn, NtScn, g)
    IN  [N_STEPS |-> n_steps, KERR_COEF |-> <<FZero, FInt(kerr)>>, k |-> 0, DIST_INDEX |-> 0,
         current_envelope |-> "initial_condition", next_envelope |-> "next_envelope",
         current_w_array |-> "current_w_array", next_w_array |-> "next_w_array",
         vectors |-> [fe_c |-> "fourier_envelope", w_c |-> "current_w_array",
                      w_n |-> "next_w_array", fe_n |-> "f_array"],
         obj |-> [initial_condition |-> env, next_envelope |-> empty2,
                  fourier_envelope |-> empty2, f_array |-> empty2,
                  current_w_array |-> empty2, next_w_array |-> empty2, copy |-> empty2],
         b_array |-> [p \in 0..2 |-> empty2],
         dist_envelope |-> [m \in 0..ScnDistLimit |-> empty2],
         k_indices |-> [m \in 0..ScnDistLimit |-> gk],
         axis_envelope |-> [z \in 0..n_steps |-> IF z = 0 THEN env[0] ELSE [t \in Idx(NtScn) |-> g]],
         peak_envelope |-> [z \in 0..n_steps |-> [r \in Idx(NrScn) |-> g]],
         terms |-> <<>>, used |-> <<>>,
         pc |-> "nonlinear"]

\* nonlinear_terms, adam_bashforth_step and the branch `if k == 0`; terms keeps the
\* nonlinear term of every step
scn_nonlinear ==
    /\ scn.pc = "nonlinear"
    /\ LET e_c == scn.obj[scn.current_envelope]
           b == nonlinear_terms(e_c)
           w == adam_bashforth_step(b, scn.KERR_COEF)
           first == scn.k = 0
       IN  scn' = [scn EXCEPT
                      !.b_array = b,
                      !.obj = [@ EXCEPT ![scn.current_w_array] = w,
                                        !["copy"] = IF first THEN w ELSE @],
                      !.next_w_array = IF first THEN "copy" ELSE @,
                      !.axis_envelope[1] = IF first THEN e_c[0] ELSE @,
                      !.terms = Append(@, w),
                      !.pc = "fft"]
    /\ UNCHANGED <<csum, ram, fcn, fss, adi, ion, mat, rout>>

\* fft_algorithm(current_envelope, fourier_envelope, current_w_array, next_w_array,
\* temp_array)
scn_fft ==
    /\ scn.pc = "fft"
    /\ scn' = [scn EXCEPT !.obj = fft_algorithm(@, scn.current_envelope, "fourier_envelope",
                                                scn.current_w_array, scn.next_w_array),
                          !.pc = "crank_nicolson"]
    /\ UNCHANGED <<csum, ram, fcn, fss, adi, ion, mat, rout>>

\* crank_nicolson_step(operators, vectors, entries); used keeps the arrays it read as
\* arr["w_c"] and arr["w_n"]
scn_crank_nicolson ==
    /\ scn.pc = "crank_nicolson"
    /\ LET w_c == scn.obj[scn.vectors.w_c]
           w_n == scn.obj[scn.vectors.w_n]
       IN  scn' = [scn EXCEPT
                      !.obj[scn.vectors.fe_n] =
                          crank_nicolson_step(scn.obj[scn.vectors.fe_c], w_c, w_n),
                      !.used = Append(@, [w_c |-> w_c, w_n |-> w_n]),
                      !.pc = "ifft"]
    /\ UNCHANGED <<csum, ram, fcn, fss, adi, ion, mat, rout>>

\* ifft_algorithm(f_array, next_envelope)
scn_ifft ==
    /\ scn.pc = "ifft"
    /\ scn' = [scn EXCEPT !.obj[scn.next_envelope] = ifft(scn.obj["f_array"]),
                          !.pc = "update"]
    /\ UNCHANGED <<csum, ram, fcn, fss, adi, ion, mat, rout>>

\* the end of the loop body: the two names are exchanged, next_w_array is rebound to
\* the object of current_w_array, and the data of the step are stored
scn_update ==
    /\ scn.pc = "update"
    /\ LET current == scn.obj[scn.next_envelope]
           store == /\ (scn.k % (scn.N_STEPS \div ScnDistLimit) = 0 \/ scn.k = scn.N_STEPS - 1)
                    /\ scn.DIST_INDEX <= ScnDistLimit
       IN  scn' = [scn EXCEPT
                      !.current_envelope = scn.next_envelope,
                      !.next_envelope = scn.current_envelope,
                      !.next_w_array = scn.current_w_array,
                      !.dist_envelope = IF store THEN [@ EXCEPT ![scn.DIST_INDEX] = current] ELSE @,
                      !.k_indices = IF store THEN [@ EXCEPT ![scn.DIST_INDEX] = scn.k] ELSE @,
                      !.DIST_INDEX = IF store THEN @ + 1 ELSE @,
                      !.axis_envelope[scn.k + 1] = IF scn.k > 0 THEN current[0] ELSE @,
                      !.peak_envelope[scn.k + 1] =
                          IF scn.k > 0 THEN Col(current, NtScn \div 2) ELSE @,
                      !.k = @ + 1,
                      !.pc = IF scn.k + 1 = scn.N_STEPS THEN "done" ELSE "nonlinear"]
    /\ UNCHANGED <<csum, ram, fcn, fss, adi, ion, mat, rout>>

(***************************************************************************)
(* inter_diagnostics (aiurpy/results/routines.py), called once for every   *)
(* step 1, 2, ..., z_steps.  The HDF5 file is a record: whether it exists, *)
(* the dataset envelope/peak_rz and the scalar metadata/last_step.  At the *)
(* call for a step the columns of solver.envelope_tp_rz up to that step    *)
(* hold the recorded peaks; the later columns are still unassigned.        *)
(***************************************************************************)
INT_MONITOR == 100

MaxZSteps == 201

NrMon == 2

\* the peak profile recorded at a step, a column of solver.envelope_tp_rz
MonPeak(step) == [r \in Idx(NrMon) |-> 1 + r + step]

\* what the path may hold before the run: nothing, or the file of an earlier run
MonFiles(z_steps) ==
    {[exists |-> FALSE, peak_rz |-> Full(NrMon, z_steps + 1, 0), last_step |-> 0],
     [exists |-> TRUE, peak_rz |-> Full(NrMon, z_steps + 1, -1), last_step |-> z_steps]}

MonRun(z_steps, file) ==
    [pc |-> "monitor", z_steps |-> z_steps, step |-> 0, file |-> file,
     envelope_tp_rz |-> Full(NrMon, z_steps + 1, 0),
     written |-> [c \in 0..z_steps |-> 0], flushes |-> <<>>]

\* h5py.File(path, "w") with the dataset peak_rz and the metadata last_step = 0
file_created(z_steps) ==
    [exists |-> TRUE, peak_rz |-> Full(NrMon, z_steps + 1, 0), last_step |-> 0]

\* a monitor that flushes at the multiples of INT_MONITOR only
flush_due_multiples_only(step, z_steps) == step % INT_MONITOR = 0

\* if step % INT_MONITOR == 0 or step == solver.grid.zd.z_steps
flush_due(step, z_steps) == step % INT_MONITOR = 0 \/ step = z_steps

\* the columns last_step + 1 : step + 1 of a flush; none unless step > last_step
flush_columns(file, step) ==
    IF step > file.last_step THEN (file.last_step + 1)..step ELSE {}

\* the body of `with h5py.File(path, "r+") as f`
flush(file, envelope_tp_rz, step) ==
    IF step > file.last_step
    THEN [file EXCEPT !.peak_rz = [r \in Idx(NrMon) |-> [c \in DOMAIN file.peak_rz[r] |->
                                      IF c \in flush_columns(file, step)
                                      THEN envelope_tp_rz[r][c] ELSE file.peak_rz[r][c]]],
                      !.last_step = step]
    ELSE file

\* inter_diagnostics(solver, step), for the next step of the run
inter_diagnostics ==
    /\ rout.pc = "monitor"
    /\ rout.step < rout.z_steps
    /\ LET step == rout.step + 1
           envelope_tp_rz == SetCol(rout.envelope_tp_rz, step, MonPeak(step))
           opened == IF step = 1 THEN file_created(rout.z_steps) ELSE rout.file
           due == flush_due(step, rout.z_steps)
       IN  rout' = [rout EXCEPT
                       !.step = step,
                       !.envelope_tp_rz = envelope_tp_rz,
                       !.file = IF due THEN flush(opened, envelope_tp_rz, step) ELSE opened,
                       !.written = [c \in DOMAIN @ |->
                                       IF due /\ c \in flush_columns(opened, step)
                                       THEN @[c] + 1 ELSE @[c]],
                       !.flushes = IF due THEN Append(@, step) ELSE @]
    /\ UNCHANGED <<csum, ram, fcn, fss, adi, ion, mat, scn>>

(***************************************************************************)
(* validate_step and cheap_diagnostics (aiurpy/results/routines.py).  The  *)
(* solver is the record of the attributes the two routines touch; a call   *)
(* either returns a value or ends the process with an exit status.         *)
(***************************************************************************)
NrRout == 1

NtRout == 2

MaxStepsRout == 2

\* the array of value base with v at the point p
RoutArray(base, p, v) ==
    [r \in Idx(NrRout) |-> [t \in Idx(NtRout) |-> IF <<r, t>> = p THEN v ELSE base]]

\* envelope_rt: flat, or with a peak or a non-finite value at one point
RoutEnvelopes ==
    {RoutArray(1, p, v) : p \in Idx(NrRout) \X Idx(NtRout), v \in {1, 2, NonFinite}}

\* density_rt: zero, or with a non-finite value at one point
RoutDensities ==
    {RoutArray(0, p, v) : p \in Idx(NrRout) \X Idx(NtRout), v \in {0, NonFinite}}

\* the solver object handed to the routines; the diagnostics arrays hold -1 where no
\* step was recorded yet
RoutSolver(envelope_rt, density_rt) ==
    [envelope_rt |-> envelope_rt, density_rt |-> density_rt,
     fluence_r |-> [r \in Idx(NrRout) |-> 3], radius |-> <<4>>,
     envelope_r0_zt |-> Full(MaxStepsRout + 1, NtRout, -1),
     envelope_tp_rz |-> Full(NrRout, MaxStepsRout + 1, -1),
     density_r0_zt |-> Full(MaxStepsRout + 1, NtRout, -1),
     density_tp_rz |-> Full(NrRout, MaxStepsRout + 1, -1),
     fluence_rz |-> Full(NrRout, MaxStepsRout + 1, -1),
     radius_z |-> [k \in Idx(MaxStepsRout + 1) |-> -1]]

\* a call of validate_step(solver, exit_on_error) or of cheap_diagnostics(solver, step)
RoutCall(fn, solver, exit_on_error, step) ==
    [pc |-> fn, solver |-> solver, exit_on_error |-> exit_on_error, step |-> step,
     ret |-> "none", status |-> 0]

\* a validation that looks at the envelope only
validate_step_envelope_only(solver, exit_on_error) ==
    IF ~AllFinite(solver.envelope_rt)
    THEN IF exit_on_error THEN [pc |-> "exited", ret |-> "none", status |-> 1]
         ELSE [pc |-> "returned", ret |-> FALSE, status |-> 0]
    ELSE [pc |-> "returned", ret |-> TRUE, status |-> 0]

\* validate_step(solver, exit_on_error): how the call ends
validate_step(solver, exit_on_error) ==
    IF ~AllFinite(solver.envelope_rt)
    THEN IF exit_on_error THEN [pc |-> "exited", ret |-> "none", status |-> 1]
         ELSE [pc |-> "returned", ret |-> FALSE, status |-> 0]
    ELSE IF ~AllFinite(solver.density_rt)
    THEN IF exit_on_error THEN [pc |-> "exited", ret |-> "none", status |-> 1]
         ELSE [pc |-> "returned", ret |-> FALSE, status |-> 0]
    ELSE [pc |-> "returned", ret |-> TRUE, status |-> 0]

validate_step_call ==
    /\ rout.pc = "validate_step"
    /\ LET end == validate_step(rout.solver, rout.exit_on_error)
       IN  rout' = [rout EXCEPT !.pc = end.pc, !.ret = end.ret, !.status = end.status]
    /\ UNCHANGED <<csum, ram, fcn, fss, adi, ion, mat, scn>>

\* the assignments of cheap_diagnostics after the validation, which has found every
\* value finite
record_step(solver, step) ==
    LET axis_data_envelope == solver.envelope_rt[0]
        axis_data_density == solver.density_rt[0]
        axis_data_intensity == [t \in Idx(NtRout) |-> Abs(axis_data_envelope[t])]
        peak_node_intensity == argmax(axis_data_intensity)
        peak_node_density == argmax(axis_data_density)
    IN  [solver EXCEPT
            !.envelope_r0_zt[step] = axis_data_envelope,
            !.envelope_tp_rz = SetCol(@, step, Col(solver.envelope_rt, peak_node_intensity)),
            !.density_r0_zt[step] = axis_data_density,
            !.density_tp_rz = SetCol(@, step, Col(solver.density_rt, peak_node_density)),
            !.fluence_rz = SetCol(@, step, solver.fluence_r),
            !.radius_z[step] = solver.radius[1]]

\* cheap_diagnostics(solver, step): validate_step(solver) with the default
\* exit_on_error = True, then the records of the step
cheap_diagnostics_call ==
    /\ rout.pc = "cheap_diagnostics"
    /\ LET end == validate_step(rout.solver, TRUE)
       IN  rout' = [rout EXCEPT !.pc = end.pc, !.status = end.status,
                                !.solver = IF end.pc = "exited" THEN @
                                           ELSE record_step(@, rout.step)]
    /\ UNCHANGED <<csum, ram, fcn, fss, adi, ion, mat, scn>>

(***************************************************************************)
(* Specifications                                                          *)
(***************************************************************************)
InitSum ==
    /\ csum \in {SumFrame(in) : in \in SumInputs}
    /\ ram = RamIdle /\ fcn = FcnIdle /\ fss = FssIdle /\ adi = AdiIdle
    /\ ion = IonIdle /\ mat = MatIdle
    /\ rout = RoutIdle /\ scn = ScnIdle

NextSum == compute_sum_iter

SpecSum == InitSum /\ [][NextSum]_vars

InitRaman ==
    /\ ram \in {RamFrame(a, d, i, c1) :
                   a \in RamPrior, d \in RamPrior, i \in RamInputs, c1 \in 0..MaxC1}
    /\ csum = SumIdle /\ fcn = FcnIdle /\ fss = FssIdle /\ adi = AdiIdle
    /\ ion = IonIdle /\ mat = MatIdle
    /\ rout = RoutIdle /\ scn = ScnIdle

NextRaman ==
    \/ compute_raman_entry
    \/ \E ll \in RamIters : compute_raman_read(ll)
    \/ \E ll \in RamIters : compute_raman_store_ram(ll)
    \/ \E ll \in RamIters : compute_raman_store_dram(ll)
    \/ compute_raman_return

SpecRaman == InitRaman /\ [][NextRaman]_vars

InitFcn ==
    /\ fcn \in {FcnSolver(n, d, dens, g, ofi, ava, p, env) :
                   n \in 1..MaxSteps, d \in 1..MaxDistLimit, dens \in FcnDensityGarbage,
                   g \in FcnGarbage, ofi \in {0, 1}, ava \in {0, 1}, p \in {0, 1},
                   env \in FcnEnvelopes}
    /\ csum = SumIdle /\ ram = RamIdle /\ fss = FssIdle /\ adi = AdiIdle
    /\ ion = IonIdle /\ mat = MatIdle
    /\ rout = RoutIdle /\ scn = ScnIdle

NextFcn ==
    \/ fcn_solve_density
    \/ fcn_solve_dispersion
    \/ fcn_solve_nonlinear
    \/ fcn_solve_envelope
    \/ fcn_cheap_diagnostics
    \/ fcn_expensive_diagnostics

SpecFcn == InitFcn /\ [][NextFcn]_vars

InitFss ==
    /\ fss \in {SolverFSS(m, u, g, env, d, c) :
                   m \in {"RK4", "AB2"}, u \in BOOLEAN, g \in FssGarbage,
                   env \in FssEnvelopes, d \in FssPhases, c \in {0, 1}}
    /\ csum = SumIdle /\ ram = RamIdle /\ fcn = FcnIdle /\ adi = AdiIdle
    /\ ion = IonIdle /\ mat = MatIdle
    /\ rout = RoutIdle /\ scn = ScnIdle

NextFss ==
    \/ fss_ionization
    \/ fss_density
    \/ fss_raman
    \/ fss_dispersion
    \/ fss_nonlinear
    \/ fss_envelope
    \/ fss_commit

SpecFss == InitFss /\ [][NextFss]_vars

InitAdi ==
    /\ adi \in {AdiScript(n, kerr, g, env) :
                   n \in 1..MaxStepsAdi, kerr \in {0, 1}, g \in AdiGarbage, env \in AdiEnvelopes}
    /\ csum = SumIdle /\ ram = RamIdle /\ fcn = FcnIdle /\ fss = FssIdle
    /\ ion = IonIdle /\ mat = MatIdle
    /\ rout = RoutIdle /\ scn = ScnIdle

NextAdi ==
    \/ adi_first_half
    \/ adi_second_half

SpecAdi == InitAdi /\ [][NextAdi]_vars

\* n_k is an argument of the mpi model only, coef_f0 and coef_ns of the ppt model only
InitIon ==
    /\ ion \in {IonCalls("mpi", env, n_k, coef, <<FZero, FOne>>, g[1], g[2]) :
                   env \in IonFields, n_k \in 1..MaxNk, coef \in {1, 2}, g \in IonGarbage}
               \cup {IonCalls("ppt", env, 1, coef, atom, g[1], g[2]) :
                        env \in IonFields, coef \in {1, 2}, atom \in IonAtoms, g \in IonGarbage}
               \cup {IonCalls("adk", env, 1, 1, <<FZero, FOne>>, g[1], g[2]) :
                        env \in IonFields, g \in IonGarbage}
    /\ csum = SumIdle /\ ram = RamIdle /\ fcn = FcnIdle /\ fss = FssIdle /\ adi = AdiIdle
    /\ mat = MatIdle
    /\ rout = RoutIdle /\ scn = ScnIdle

NextIon == \E k \in {1, 2} : compute_ionization_call(k)

SpecIon == InitIon /\ [][NextIon]_vars

InitMat ==
    /\ mat \in {MatCall(fn, n_r, m_p, coef_d) :
                   fn \in {"compute_matrix", "crank_nicolson_matrix"}, n_r \in 2..MaxNr,
                   m_p \in {"left", "right"}, coef_d \in (-1)..MaxCoef}
    /\ csum = SumIdle /\ ram = RamIdle /\ fcn = FcnIdle /\ fss = FssIdle /\ adi = AdiIdle
    /\ ion = IonIdle
    /\ rout = RoutIdle /\ scn = ScnIdle

NextMat ==
    \/ compute_matrix_call
    \/ crank_nicolson_matrix_call

SpecMat == InitMat /\ [][NextMat]_vars

InitMonitor ==
    /\ rout \in UNION {{MonRun(z, f) : f \in MonFiles(z)} : z \in 1..MaxZSteps}
    /\ csum = SumIdle /\ ram = RamIdle /\ fcn = FcnIdle /\ fss = FssIdle /\ adi = AdiIdle
    /\ ion = IonIdle /\ mat = MatIdle /\ scn = ScnIdle

NextMonitor == inter_diagnostics

SpecMonitor == InitMonitor /\ [][NextMonitor]_vars

InitRoutines ==
    /\ rout \in {RoutCall("validate_step", RoutSolver(e, d), x, 0) :
                    e \in RoutEnvelopes, d \in RoutDensities, x \in BOOLEAN}
               \cup {RoutCall("cheap_diagnostics", RoutSolver(e, d), TRUE, k) :
                       e \in RoutEnvelopes, d \in RoutDensities, k \in 1..MaxStepsRout}
    /\ csum = SumIdle /\ ram = RamIdle /\ fcn = FcnIdle /\ fss = FssIdle /\ adi = AdiIdle
    /\ ion = IonIdle /\ mat = MatIdle /\ scn = ScnIdle

NextRoutines ==
    \/ validate_step_call
    \/ cheap_diagnostics_call

SpecRoutines == InitRoutines /\ [][NextRoutines]_vars

InitScn ==
    /\ scn \in {ScnScript(n, kerr, g, gk, env) :
                   n \in 1..MaxStepsScn, kerr \in {0, 1}, g \in ScnGarbage,
                   gk \in ScnIntGarbage, env \in ScnEnvelopes}
    /\ csum = SumIdle /\ ram = RamIdle /\ fcn = FcnIdle /\ fss = FssIdle /\ adi = AdiIdle
    /\ ion = IonIdle /\ mat = MatIdle /\ rout = RoutIdle

NextScn ==
    \/ scn_nonlinear
    \/ scn_fft
    \/ scn_crank_nicolson
    \/ scn_ifft
    \/ scn_update

SpecScn == InitScn /\ [][NextScn]_vars

\* the two cheap_diagnostics implementations: a call of the routines of routines.py,
\* or a run of the FCN solver
InitDiagnostics == InitRoutines \/ InitFcn

NextDiagnostics ==
    \/ NextRoutines
    \/ NextFcn

SpecDiagnostics == InitDiagnostics /\ [][NextDiagnostics]_vars

\* the two temporal sweeps: a call of compute_raman, or a run of the FCN solver
InitSweeps == InitRaman \/ InitFcn

NextSweeps ==
    \/ NextRaman
    \/ NextFcn

SpecSweeps == InitSweeps /\ [][NextSweeps]_vars

\* the two solvers: a run of SolverFSS, or a run of the FCN solver
InitSolvers == InitFss \/ InitFcn

NextSolvers ==
    \/ NextFss
    \/ NextFcn

SpecSolvers == InitSolvers /\ [][NextSolvers]_vars

(***************************************************************************)
(* Claims                                                                  *)
(***************************************************************************)

\* the sub-steps of the last finished solve_step, in the order they ran
FssStepDone == fss.pc = "ionization" /\ fss.step >= 1

\* C1 as stated: within one solve_step the sub-steps run once each in the order
\* ionization, density, Raman, nonlinear assembly, dispersion, diffraction solve, commit.
C1_OrderAsStated ==
    FssStepDone =>
        fss.trace = <<"ionization", "density", "raman", "nonlinear", "dispersion",
                      "envelope", "commit">>

\* C2: in every parallel loop each iteration owns a disjoint slice: no element
\* written by one iteration is read or written by another iteration of the loop.
C2_DisjointSlices ==
    ram.pc \in {"prange", "returned"} =>
        \A a \in RamIters : \A b \in RamIters \ {a} :
            ram.writes[a] \cap (ram.reads[b] \cup ram.writes[b]) = {}

\* C3: compute_raman is schedule independent: whatever the interleaving and the
\* prior contents, the returned arrays equal the sequential recurrence.
C3_RamanScheduleIndependent ==
    ram.pc = "returned" =>
        \A t \in Idx(NtRam) :
            LET s == SeqRaman(t, ram.int_a, ram.ram_c1_a, ram.ram_c2_a, ram.dt)
            IN  Col(ram.ram_a, t) = s[1] /\ Col(ram.dram_a, t) = s[2]

\* C4: solve_density integrates along the time axis within one sweep: output column
\* 0 is 0 and output column l + 1 is one RK4 step from output column l of that sweep.
C4_DensitySweepRecurrence ==
    fcn.pc = "solve_dispersion" =>
        /\ \A r \in Idx(NrFcn) : fcn.next_density[r][0] = 0
        /\ \A l \in Idx(NtFcn - 1) :
              Col(fcn.next_density, l + 1) =
                  rk4_density_step(Col(fcn.envelope, l), Col(fcn.next_density, l),
                                   fcn.dens_op_args, fcn.dt, fcn.dt_2, fcn.dt_6)

\* C5: with ofi_coef = 0 and ava_coef = 0 the density that solve_density returns is 0
\* at every node and time index, whatever the buffers held before, first call included.
C5_NoSpuriousGrowth ==
    (/\ fcn.pc = "solve_dispersion"
     /\ fcn.dens_op_args.ofi_coef = 0
     /\ fcn.dens_op_args.ava_coef = 0) =>
        fcn.next_density = Full(NrFcn, NtFcn, 0)

\* C7: the commit is an exchange: afterwards envelope_rt holds what envelope_next_rt
\* held just before the commit, and envelope_next_rt what envelope_rt held.
C7_CommitExchanges ==
    FssStepDone =>
        /\ fss.envelope_rt = fss.before[2]
        /\ fss.envelope_next_rt = fss.before[1]

\* C8: the current and the next envelope buffer never refer to the same storage.
\* (SolverFSS and FCNSolver copy between two arrays they keep; the ADI loop rebinds.)
C8_NeverAliased ==
    adi.pc # "idle" => adi.envelope # adi.envelope_store

\* C9: a non-finite value seen by the validation of step k ends the run at step k:
\* the next thing the program does is exit, and after it solve_step never runs again.
C9_NonFiniteIsFatal ==
    [][/\ (fcn.pc = "cheap" /\ (~AllFinite(fcn.envelope) \/ ~AllFinite(fcn.density)))
           => (fcn'.pc = "exited" /\ fcn'.solve_calls = fcn.solve_calls)
       /\ fcn.pc = "exited"
           => (fcn'.pc = "exited" /\ fcn'.solve_calls = fcn.solve_calls)]_vars

\* the run ended at a step after the first, on a value that overflowed there
C9_Witness ==
    /\ fcn.pc = "exited"
    /\ fcn.solve_calls >= 2
    /\ fcn.solve_calls < fcn.n_steps
    /\ ~AllFinite(fcn.envelope)

\* C10: for every nonlinear method the nonlinear term that compute_envelope consumes
\* in step k was assembled in step k, never left over from step k - 1 or allocation.
C10_NonlinearFresh ==
    fss.pc = "commit" => fss.nl_step = fss.step

\* the points of the grid of compute_ionization whose field magnitude is below the floor
IonLowPoints ==
    {p \in Idx(NrIon) \X Idx(NtIon) : low_field(FInt(Abs(ion.env[p[1]][p[2]])))}

\* C11: in the ppt model, a call of compute_ionization leaves ion_rate, at every point
\* whose field magnitude is below 1e-12, equal to the value it had before the call.
C11_LowFieldRateKept ==
    \A k \in {1, 2} :
        (ion.pc = "calls" /\ ion.ion_model = "ppt" /\ ion.run[k].pc = "returned") =>
            \A p \in IonLowPoints :
                ion.run[k].ion_rate[p[1]][p[2]] = ion.run[k].rate0[p[1]][p[2]]

\* C12: two calls of compute_ionization with the same envelope, coefficients and model
\* but different prior contents of ion_rate and ion_sum end with identical ion_rate
\* and ion_sum.
C12_ScratchNotCarried ==
    (ion.pc = "calls" /\ ion.run[1].pc = "returned" /\ ion.run[2].pc = "returned") =>
        /\ ion.run[1].ion_rate = ion.run[2].ion_rate
        /\ ion.run[1].ion_sum = ion.run[2].ion_sum

\* C13: a call of compute_ionization with a model other than "mpi" and "ppt" never
\* returns; it raises, and then ion_rate and ion_sum hold what they held at the call.
C13_InvalidModelRaises ==
    \A k \in {1, 2} :
        (ion.pc = "calls" /\ ion.ion_model \notin {"mpi", "ppt"}) =>
            /\ ion.run[k].pc \in {"call", "raised"}
            /\ ion.run[k].ion_rate = ion.run[k].rate0
            /\ ion.run[k].ion_sum = ion.run[k].sum0

\* a call with an unrecognized model has raised, on arrays whose contents differ from
\* what the mpi model would have written
C13_Witness ==
    /\ ion.pc = "calls"
    /\ ion.ion_model = "adk"
    /\ ion.run[1].pc = "raised"
    /\ ion.run[1].rate0 # ionization_mpi(field_modulus(ion.env), ion.n_k, ion.coef_ofi)

\* the matrix a returned operator stands for
MatDense ==
    IF mat.fn = "compute_matrix" /\ mat.m_p = "left"
    THEN banded_dense(mat.result, mat.n_r) ELSE mat.result

\* C14: building a diffraction operator with fewer than 3 radial nodes fails for both
\* sides: no call with n_r < 3 returns an operator.
C14_SmallGridRejected ==
    (mat.pc # "idle" /\ mat.n_r < 3) => mat.pc # "returned"

\* C15: for n_r >= 3 the operator is tridiagonal with interior rows
\* -c(1 - 0.5/i), 1 + 2c, -c(1 + 0.5/i), axis row 1 + 2c, -2c, outer row (0, 1) for
\* "left" and all zero for "right"; the (3, n_r) array returned for "left" stands for
\* this matrix under the convention of solve_banded.
C15_OperatorEntries ==
    (mat.pc = "returned" /\ mat.n_r >= 3) =>
        LET a == MatDense
            c == mat.coef_d
            n == mat.n_r
        IN  /\ \A i \in 1..(n - 2) :
                   /\ RatEq(a[i][i - 1], Rat(-c * (2 * i - 1), 2 * i))
                   /\ RatEq(a[i][i], Rat(1 + 2 * c, 1))
                   /\ RatEq(a[i][i + 1], Rat(-c * (2 * i + 1), 2 * i))
            /\ RatEq(a[0][0], Rat(1 + 2 * c, 1))
            /\ RatEq(a[0][1], Rat(-2 * c, 1))
            /\ mat.m_p = "left" =>
                   RatEq(a[n - 1][n - 1], Rat(1, 1)) /\ RatEq(a[n - 1][n - 2], Rat(0, 1))
            /\ mat.m_p = "right" => \A j \in Idx(n) : RatEq(a[n - 1][j], Rat(0, 1))
            /\ \A i, j \in Idx(n) : (i - j \notin {-1, 0, 1}) => RatEq(a[i][j], Rat(0, 1))
            /\ (mat.fn = "compute_matrix" /\ mat.m_p = "left") =>
                   /\ DOMAIN mat.result = 0..2
                   /\ \A b \in 0..2 : DOMAIN mat.result[b] = Idx(n)
                   /\ RatEq(mat.result[0][0], Rat(0, 1))
                   /\ RatEq(mat.result[2][n - 1], Rat(0, 1))

\* a banded left operator with interior rows and a non-zero coefficient was returned
C15_Witness ==
    /\ mat.pc = "returned"
    /\ mat.fn = "compute_matrix"
    /\ mat.m_p = "left"
    /\ mat.n_r >= 4
    /\ mat.coef_d = 1
    /\ ~RatEq(mat.result[0][2], mat.result[2][0])

C17_RamanDisabled ==
    (fss.pc # "idle" /\ ~fss.use_raman) =>
        /\ fss.raman_calls = 0
        /\ fss.pc = "nonlinear" => fss.raman_rt = Full(NrFss, NtFss, 0)

\* the nonlinear term of the second step is about to be assembled with Raman disabled,
\* on arrays that were allocated with non-zero contents
C17_Witness ==
    /\ fss.pc = "nonlinear"
    /\ ~fss.use_raman
    /\ fss.step = MaxStepsFss
    /\ fss.draman_rt # Full(NrFss, NtFss, 0)

\* C18: after each call of compute_raman the first time column of ram_a and dram_a is 0,
\* and after each call of solve_density the first time column of the density is 0,
\* whatever the arrays held before.
C18_CausalBoundaryReset ==
    /\ ram.pc = "returned" =>
           /\ Col(ram.ram_a, 0) = [r \in Idx(NrRam) |-> 0]
           /\ Col(ram.dram_a, 0) = [r \in Idx(NrRam) |-> 0]
    /\ fcn.pc = "solve_dispersion" =>
           /\ Col(fcn.next_density, 0) = [r \in Idx(NrFcn) |-> 0]
           /\ Col(fcn.density, 0) = [r \in Idx(NrFcn) |-> 0]

\* the first solve_density of a run has returned, on a density buffer that was
\* allocated with non-zero contents
C18_Witness ==
    /\ fcn.pc = "solve_dispersion"
    /\ fcn.solve_calls = 1
    /\ \A r \in Idx(NrFcn) : fcn.density[r][1] # 0

\* C19: no step of a solver changes its diffraction operators or its dispersion phase.
C19_OperatorsInvariant ==
    [][/\ fss.pc # "idle" =>
              /\ fss'.matrix_left = fss.matrix_left
              /\ fss'.matrix_right = fss.matrix_right
              /\ fss'.disp_exp = fss.disp_exp
       /\ fcn.pc # "idle" =>
              /\ fcn'.left_matrix = fcn.left_matrix
              /\ fcn'.right_matrix = fcn.right_matrix
              /\ fcn'.fourier_coeff = fcn.fourier_coeff]_vars

\* two whole steps of SolverFSS are done and the operators are the ones set_operators built
C19_Witness ==
    /\ fss.pc = "ionization"
    /\ fss.step = MaxStepsFss
    /\ Len(fss.trace) >= 6
    /\ fss.matrix_left = compute_matrix(NrFss, "left", 0)
    /\ fss.matrix_right = compute_matrix(NrFss, "right", 0)
    /\ fss.disp_exp \in FssPhases

\* C20: with a unit dispersion phase compute_dispersion reproduces its input:
\* afterwards envelope_split_rt equals envelope_rt at every point of the grid.
C20_UnitPhaseRoundTrip ==
    (/\ fss.pc \in {"nonlinear", "envelope"}
     /\ fss.trace[Len(fss.trace)] = "dispersion"
     /\ fss.disp_exp = [t \in Idx(NtFss) |-> 1]) =>
        fss.envelope_split_rt = fss.envelope_rt

IonPoints == Idx(NrIon) \X Idx(NtIon)

\* C21: in the mpi model the rate a call returns is coef_ofi * |E|^(2 n_k) at every
\* grid point, so that a point whose field magnitude is twice that of another point
\* has exactly 2^(2 n_k) times its rate.
C21_MpiPowerLaw ==
    \A k \in {1, 2} :
        (ion.pc = "calls" /\ ion.ion_model = "mpi" /\ ion.run[k].pc = "returned") =>
            /\ \A p \in IonPoints :
                   ion.run[k].ion_rate[p[1]][p[2]] =
                       FMul(ion.coef_ofi, FInt(Abs(ion.env[p[1]][p[2]]) ^ (2 * ion.n_k)))
            /\ \A p \in IonPoints, q \in IonPoints :
                   Abs(ion.env[q[1]][q[2]]) = 2 * Abs(ion.env[p[1]][p[2]]) =>
                       ion.run[k].ion_rate[q[1]][q[2]] =
                           FMul(ion.run[k].ion_rate[p[1]][p[2]], FInt(2 ^ (2 * ion.n_k)))

\* an mpi call has returned on a grid with a point of non-zero field and a point of
\* twice that field, with more than one photon
C21_Witness ==
    /\ ion.pc = "calls" /\ ion.ion_model = "mpi" /\ ion.run[1].pc = "returned"
    /\ ion.n_k = MaxNk
    /\ \E p \in IonPoints, q \in IonPoints :
           /\ ion.env[p[1]][p[2]] > 0
           /\ ion.env[q[1]][q[2]] = 2 * ion.env[p[1]][p[2]]
           /\ FLess(FZero, ion.run[1].ion_rate[p[1]][p[2]])

\* the iterations that have stored the step from (R, R') = (1, 0) with I = 0 at row r
RamCosineSteps(r) ==
    {ll \in RamIters : /\ ram.unit[ll] = "done"
                       /\ \A i \in 1..Len(RamReads) :
                              ram.seen[ll][i][r] = IF RamReads[i] = "ram_a" THEN 1 ELSE 0
                       /\ ram.int_a[r][ll] = 0}

\* C22: with c1 = 1, c2 = 0, I = 0 and (R, R') = (1, 0), one step of size dt returns
\* R = 1 - dt^2/2 + dt^4/24 and R' = -dt + dt^3/6.
C22_CosineTruncation ==
    (ram.pc \in {"prange", "returned"} /\ ram.ram_c1_a = 1 /\ ram.ram_c2_a = 0) =>
        \A r \in Idx(NrRam) : \A ll \in RamCosineSteps(r) :
            /\ 24 * ram.ram_a[r][ll + 1] = 24 - 12 * ram.dt ^ 2 + ram.dt ^ 4
            /\ 6 * ram.dram_a[r][ll + 1] = ram.dt ^ 3 - 6 * ram.dt

\* an iteration has stored the step from (1, 0) with c1 = 1 and a non-zero step size
C22_Witness ==
    /\ ram.pc \in {"prange", "returned"} /\ ram.ram_c1_a = 1 /\ ram.ram_c2_a = 0
    /\ ram.dt > 0
    /\ \E r \in Idx(NrRam) : RamCosineSteps(r) # {}

\* C24: at every grid point where compute_ionization calls compute_sum, the argument
\* idx_ppt_s it passes is that point's index term 1 + 0.5 / gamma^2.
C24_SumIndexArgument ==
    \A k \in {1, 2} :
        (ion.pc = "calls" /\ ion.ion_model = "ppt" /\ ion.run[k].pc = "returned") =>
            \A p \in IonPoints \ IonLowPoints :
                ion.run[k].sum_args[p[1]][p[2]] =
                    compute_idx_gamma(keldysh_gamma(FInt(Abs(ion.env[p[1]][p[2]]))))

\* C25: propagate goes through all steps: it calls solve_step exactly n_steps times,
\* cheap_diagnostics gets the step indices 1, 2, ..., n_steps in this order, so that
\* every row 1..n_steps of the per-step arrays is written, and the snapshots end with
\* k_array[m] = m * (n_steps // dist_limit) for m = 1..dist_limit.
C25_AllStepsPropagated ==
    /\ fcn.pc # "idle" =>
           \A i \in 1..Len(fcn.cheap_calls) : fcn.cheap_calls[i] = i
    /\ fcn.pc = "done" =>
           /\ fcn.solve_calls = fcn.n_steps
           /\ Len(fcn.cheap_calls) = fcn.n_steps
           /\ \A m \in 1..fcn.dist_limit :
                  fcn.k_array[m] = m * (fcn.n_steps \div fcn.dist_limit)

\* C26: over the calls for step = 1, ..., z_steps the stored last_step never decreases;
\* a flush happens exactly at the multiples of INT_MONITOR and at step = z_steps and
\* writes the columns last_step + 1 .. step, so no column is written twice; after the
\* last call last_step = z_steps, every column 1..z_steps was written exactly once and
\* these columns of peak_rz equal those of solver.envelope_tp_rz.
C26_MonitorFlushes ==
    /\ [](rout.pc = "monitor" =>
            /\ \A c \in 0..rout.z_steps : rout.written[c] <= 1
            /\ \A i \in 1..Len(rout.flushes) :
                   rout.flushes[i] % INT_MONITOR = 0 \/ rout.flushes[i] = rout.z_steps
            /\ \A k \in 1..rout.step :
                   (k % INT_MONITOR = 0 \/ k = rout.z_steps) =>
                       \E i \in 1..Len(rout.flushes) : rout.flushes[i] = k
            /\ rout.step >= 1 => \A c \in 1..rout.z_steps :
                   rout.written[c] = 1 <=> c <= rout.file.last_step
            /\ rout.step = rout.z_steps =>
                   /\ rout.file.last_step = rout.z_steps
                   /\ \A c \in 1..rout.z_steps :
                          /\ rout.written[c] = 1
                          /\ Col(rout.file.peak_rz, c) = Col(rout.envelope_tp_rz, c)
                          /\ Col(rout.file.peak_rz, c) = MonPeak(c))
    /\ [][(rout.pc = "monitor" /\ rout.step >= 1) =>
              rout'.file.last_step >= rout.file.last_step]_vars

\* a run longer than two monitor periods has ended, over the file of an earlier run,
\* with a last flush shorter than a period
C26_Witness ==
    /\ rout.pc = "monitor"
    /\ rout.step = rout.z_steps
    /\ rout.z_steps > 2 * INT_MONITOR
    /\ Len(rout.flushes) = 3
    /\ rout.file.peak_rz[0][0] = 0
    /\ rout.file.last_step = rout.z_steps

\* C27: validate_step with exit_on_error false never ends the process and returns True
\* exactly when envelope_rt and density_rt are finite everywhere; with exit_on_error
\* true it ends the process with status 1 when either array holds a non-finite value
\* and returns True otherwise.  It never modifies the solver.
C27_ValidateStep ==
    [][rout.pc = "validate_step" =>
          LET finite == AllFinite(rout.solver.envelope_rt) /\ AllFinite(rout.solver.density_rt)
          IN  /\ rout'.solver = rout.solver
              /\ ~rout.exit_on_error =>
                     (rout'.pc = "returned" /\ rout'.ret = finite)
              /\ rout.exit_on_error =>
                     IF finite THEN rout'.pc = "returned" /\ rout'.ret = TRUE
                     ELSE rout'.pc = "exited" /\ rout'.status = 1]_vars

\* a call with exit_on_error false has returned False on a finite envelope and a
\* density with a non-finite value
C27_Witness ==
    /\ rout.pc = "returned" /\ rout.step = 0
    /\ ~rout.exit_on_error
    /\ rout.ret = FALSE
    /\ AllFinite(rout.solver.envelope_rt)
    /\ ~AllFinite(rout.solver.density_rt)

\* the array a with the value v in the rows outside rows
OutsideRows(a, rows, v) ==
    [r \in DOMAIN a |-> [t \in DOMAIN a[r] |-> IF r \in rows THEN a[r][t] ELSE v]]

\* C28: when compute_envelope runs, no element of envelope_split_rt or nonlinear_rt
\* that was never assigned since its allocation influences envelope_next_rt: whatever
\* such elements hold, compute_envelope gives the same envelope_next_rt.
C28_NoUnassignedRead ==
    fss.pc = "envelope" =>
        \A v \in FssGarbage :
            compute_envelope(fss.matrix_right, fss.matrix_left,
                             OutsideRows(fss.envelope_split_rt, fss.split_rows, v),
                             OutsideRows(fss.nonlinear_rt, fss.nl_rows, v))
                = compute_envelope(fss.matrix_right, fss.matrix_left,
                                   fss.envelope_split_rt, fss.nonlinear_rt)

\* C29: at every step k the array crank_nicolson_step reads as vectors["w_n"] holds the
\* Fourier transform of the nonlinear term of step k - 1 (of step 0 when k = 0), and
\* the array it reads as vectors["w_c"] holds the transform, applied once, of the
\* nonlinear term of step k.
C29_AdamsBashforthTerms ==
    scn.pc # "idle" =>
        \A i \in 1..Len(scn.used) :
            /\ scn.used[i].w_c = fft(scn.terms[i])
            /\ scn.used[i].w_n = fft(scn.terms[IF i = 1 THEN 1 ELSE i - 1])

\* C30: in both cheap_diagnostics implementations, when the state fails validation at
\* step k the call ends the process and leaves every per-step diagnostics array as it
\* was before the call: nothing of step k is recorded.
C30_ValidateBeforeRecord ==
    [][/\ (rout.pc = "cheap_diagnostics" /\ rout'.pc = "exited") =>
              rout'.solver = rout.solver
       /\ (fcn.pc = "cheap" /\ fcn'.pc = "exited") =>
              /\ fcn'.axis_envelope = fcn.axis_envelope
              /\ fcn'.axis_density = fcn.axis_density
              /\ fcn'.peak_envelope = fcn.peak_envelope
              /\ fcn'.peak_density = fcn.peak_density]_vars

\* acc plus the series terms at the indices seq[lo], ..., seq[hi], added one by one
\* in this order
RECURSIVE SumFold(_, _, _, _, _, _, _)
SumFold(seq, lo, hi, acc, alpha_s, beta_s, nu_thr) ==
    IF lo > hi \/ acc = FNaN THEN acc
    ELSE IF lo = hi THEN FAdd(acc, series_term(alpha_s, beta_s, seq[lo], nu_thr))
    ELSE LET mid == (lo + hi) \div 2
         IN  SumFold(seq, mid + 1, hi, SumFold(seq, lo, mid, acc, alpha_s, beta_s, nu_thr),
                     alpha_s, beta_s, nu_thr)

\* the series terms at the indices of seq, added in the order of the loop
PartialSum(seq, alpha_s, beta_s, nu_thr) ==
    SumFold(seq, 1, Len(seq), FZero, alpha_s, beta_s, nu_thr)

\* C6: for every call with a finite nu_thr, for which idx_min is defined, compute_sum
\* terminates: it evaluates terms only at the consecutive indices
\* idx_min .. idx_min + 200, each once, it raises no exception, and on return, at the
\* cap too, it returns the accumulated partial sum.
C6_SumCapped ==
    (csum.pc # "idle" /\ FIsFinite(csum.nu_thr)) =>
        /\ Len(csum.evaluated) <= max_idx + 1
        /\ \A i \in 1..Len(csum.evaluated) : csum.evaluated[i] = csum.idx_min + i - 1
        /\ csum.pc \in {"loop", "returned"}
        /\ csum.pc = "loop" => Len(csum.evaluated) <= max_idx
        /\ csum.pc = "returned" =>
               csum.ret = PartialSum(csum.evaluated, csum.alpha_s, csum.beta_s, csum.nu_thr)

\* the cap was reached without convergence and the partial sum was returned
C6_Witness ==
    /\ csum.pc = "returned"
    /\ Len(csum.evaluated) = max_idx + 1
    /\ csum.idx = csum.idx_min + max_idx + 1
    /\ FLess(FZero, csum.sum_value)
    /\ csum.ret = csum.sum_value

\* C23 as stated: compute_sum starts at ceil(nu); it goes on to the next index exactly when the
\* term just added exceeds tol times the partial sum, and it stops at the first index
\* whose term does not exceed it (a tie included), returning the partial sum so far.
C23_StopRule ==
    (csum.pc # "idle" /\ csum.evaluated # <<>>) =>
        /\ csum.evaluated[1] = FCeil(csum.nu_thr)
        /\ csum.pc = "loop" => FLess(FMul(csum.tol, csum.sum_value), csum.sum_term)
        /\ csum.pc = "returned" =>
               /\ FLeq(csum.sum_term, FMul(csum.tol, csum.sum_value))
               /\ csum.ret = PartialSum(csum.evaluated, csum.alpha_s, csum.beta_s, csum.nu_thr)

\* C23 (amended): compute_sum starts at ceil(nu); it goes on to the next index exactly
\* when the comparison sum_term < tol * sum_value is false for the term just added (the
\* term is at least tol times the partial sum, a tie included, or one of the two is
\* nan) and fewer than max_idx + 1 terms were added; otherwise it returns the partial
\* sum so far.
C23_StopRuleAmended ==
    (csum.pc # "idle" /\ csum.evaluated # <<>>) =>
        /\ csum.evaluated[1] = FCeil(csum.nu_thr)
        /\ csum.pc = "loop" =>
               /\ ~FLess(csum.sum_term, FMul(csum.tol, csum.sum_value))
               /\ Len(csum.evaluated) <= max_idx
        /\ csum.pc = "returned" =>
               /\ \/ FLess(csum.sum_term, FMul(csum.tol, csum.sum_value))
                  \/ Len(csum.evaluated) = max_idx + 1
               /\ csum.ret = PartialSum(csum.evaluated, csum.alpha_s, csum.beta_s, csum.nu_thr)

\* the first term was zero, a tie with the zero partial sum; the loop went on and has
\* returned a positive sum on convergence, before the cap
C23_Witness ==
    /\ csum.pc = "returned"
    /\ series_term(csum.alpha_s, csum.beta_s, csum.idx_min, csum.nu_thr) = FZero
    /\ Len(csum.evaluated) \in 2..max_idx
    /\ FLess(FZero, csum.ret)
    /\ FLess(csum.sum_term, FMul(csum.tol, csum.sum_value))

====
